---- MODULE Spec2Model ----
(***************************************************************************)
(* Model of the SEO auditor of main.go: the eight category scorers, the    *)
(* aggregator (calculateOverallScore), the grader (calculateGrade), the    *)
(* recommendation synthesizer (generateRecommendations) and the control    *)
(* flow of AuditWebsite.                                                   *)
(*                                                                         *)
(* Numbers.  A category Score is a float64 in the code.  Every value the   *)
(* code can produce is a multiple of 1/3 point (whole points everywhere,   *)
(* thirds only after the Web-Vitals renormalisation raw/(n*20)*100), so a  *)
(* Score is held as an integer number of thirds of a point: Pt units per   *)
(* point.  OverallScore is held in hundredths (it is rounded to 2          *)
(* decimals), the value before that rounding in 1/Pt ten-thousandths.      *)
(*                                                                         *)
(* Strings.  An issue is [text, args]: the format string and the values    *)
(* fmt.Sprintf substitutes into it (args is empty for a literal string).   *)
(***************************************************************************)
EXTENDS Integers, Sequences, FiniteSets, TLC

VARIABLES
    pc,         \* position of the running operation
    url,        \* targetURL of the audit
    page,       \* the signals the page answers to the scorers' queries
    audit,      \* the SEOAudit under construction
    result,     \* what AuditWebsite returned: [audit, err]
    calls,      \* the components invoked by the current audit, in order
    now,        \* the wall clock read by time.Now()
    openPages,  \* pages open on the shared browser
    last,       \* the SEOAudit returned by the previous successful audit
    served      \* number of audits finished

vars == <<pc, url, page, audit, result, calls, now, openPages, last, served>>

----------------------------------------------------------------------------
(* Units and small helpers *)

Pt == 3

Nil == [nil |-> TRUE]

Issue(text) == [text |-> text, args |-> <<>>]

Issuef(text, arg) == [text |-> text, args |-> <<arg>>]

\* the outcome of one checked condition: points awarded and issues appended
Award(pts, issues) == [pts |-> pts, issues |-> issues]

RECURSIVE SumPts(_)
SumPts(checks) ==
    IF checks = <<>> THEN 0
    ELSE Head(checks).pts + SumPts(Tail(checks))

RECURSIVE ConcatIssues(_)
ConcatIssues(checks) ==
    IF checks = <<>> THEN <<>>
    ELSE Head(checks).issues \o ConcatIssues(Tail(checks))

\* math.Round / the %.Nf verbs on num/den >= 0: nearest integer.  Round
\* sends halves away from zero, the fmt verbs send them to the even neighbour.
RoundHalfUp(num, den) == (2 * num + den) \div (2 * den)

RoundHalfEven(num, den) ==
    LET q == num \div den
        r == num % den
    IN  IF 2 * r < den THEN q
        ELSE IF 2 * r > den THEN q + 1
        ELSE IF q % 2 = 0 THEN q ELSE q + 1

RECURSIVE Rep(_, _)
Rep(n, x) == IF n = 0 THEN <<>> ELSE <<x>> \o Rep(n - 1, x)

----------------------------------------------------------------------------
(* Technical scorer, auditTechnicalSEO *)

MB == 1024 * 1024

\* the scheme tested by its prefix "http"
isHTTPSByPrefix(targetURL) == targetURL.scheme \in {"http", "https"}

isHTTPS(targetURL) == targetURL.scheme = "https"

\* a variant whose middle tier gives nothing and whose top tier gives 5
requestsCheckSwapped(requests) ==
    IF requests < 50 THEN Award(10, <<>>)
    ELSE IF requests < 100 THEN Award(0, <<>>)
    ELSE Award(5, <<Issuef("High number of HTTP requests (%d)", requests)>>)

\* score.HTTPRequests = images + scripts + links against 50 and 100
requestsCheck(requests) ==
    IF requests < 50 THEN Award(10, <<>>)
    ELSE IF requests < 100 THEN Award(5, <<>>)
    ELSE Award(0, <<Issuef("High number of HTTP requests (%d)", requests)>>)

technicalChecks(p, targetURL, loadTime) ==
    LET pageSize == p.contentLen
        requests == Len(p.imgAlts) + p.scripts + p.stylesheets
    IN  << \* Check HTTPS
           IF isHTTPS(targetURL) THEN Award(15, <<>>)
           ELSE Award(0, <<Issue("Site is not using HTTPS")>>),
           \* Check viewport meta tag
           IF p.viewport > 0 THEN Award(10, <<>>)
           ELSE Award(0, <<Issue("Missing viewport meta tag")>>),
           \* Check robots.txt
           IF p.robotsTxt THEN Award(10, <<>>)
           ELSE Award(0, <<Issue("robots.txt not found")>>),
           \* Check sitemap
           IF p.sitemap THEN Award(10, <<>>)
           ELSE Award(0, <<Issue("sitemap.xml not found")>>),
           \* Check page load time
           IF loadTime < 2000 THEN Award(20, <<>>)
           ELSE IF loadTime < 3000
           THEN Award(15, <<Issue("Page load time is moderate (2-3 seconds)")>>)
           ELSE IF loadTime < 5000
           THEN Award(10, <<Issue("Page load time is slow (3-5 seconds)")>>)
           ELSE Award(5, <<Issuef("Page load time is very slow (%.2f seconds)",
                                  RoundHalfEven(loadTime, 10))>>),
           \* Estimate page size
           IF pageSize < 3 * MB THEN Award(10, <<>>)
           ELSE Award(0, <<Issuef("Page size is large (%.2f MB)",
                                  RoundHalfEven(pageSize * 100, MB))>>),
           \* Count images and scripts (estimate HTTP requests)
           requestsCheck(requests),
           \* Check for canonical tag
           IF p.canonical > 0 THEN Award(10, <<>>)
           ELSE Award(0, <<Issue("Missing canonical tag")>>),
           \* Check HTTP status
           Award(5, <<>>) >>

auditTechnicalSEO(p, targetURL, loadTime) ==
    LET checks == technicalChecks(p, targetURL, loadTime)
    IN  [ Score            |-> Pt * SumPts(checks),
          MaxScore         |-> Pt * 100,
          LoadTime         |-> loadTime,
          PageSize         |-> p.contentLen,
          HTTPRequests     |-> Len(p.imgAlts) + p.scripts + p.stylesheets,
          HasRobotsTxt     |-> p.robotsTxt,
          HasSitemap       |-> p.sitemap,
          IsHTTPS          |-> isHTTPS(targetURL),
          IsMobileFriendly |-> p.viewport > 0,
          HasViewport      |-> p.viewport > 0,
          HTTPStatusCode   |-> 200,
          Issues           |-> ConcatIssues(checks) ]

----------------------------------------------------------------------------
(* On-Page scorer, auditOnPageSEO *)

\* page.Title(): the title and whether the call failed
HasTitle(p) == ~p.titleErr /\ p.titleLen # 0

\* without the test for a missing H1
checkHeadingHierarchyNoH1(p) ==
    IF p.h3 > 0 /\ p.h2 = 0 THEN FALSE
    ELSE IF p.h4 > 0 /\ p.h3 = 0 THEN FALSE
    ELSE IF p.h5 > 0 /\ p.h4 = 0 THEN FALSE
    ELSE IF p.h6 > 0 /\ p.h5 = 0 THEN FALSE
    ELSE TRUE

checkHeadingHierarchy(p) ==
    IF p.h1 = 0 THEN FALSE
    ELSE IF p.h3 > 0 /\ p.h2 = 0 THEN FALSE
    ELSE IF p.h4 > 0 /\ p.h3 = 0 THEN FALSE
    ELSE IF p.h5 > 0 /\ p.h4 = 0 THEN FALSE
    ELSE IF p.h6 > 0 /\ p.h5 = 0 THEN FALSE
    ELSE TRUE

HasOGTags(p) == p.ogTitle > 0 /\ p.ogDesc > 0 /\ p.ogImage > 0

\* title length 50 counted as too short, 60 as too long
titleChecksExclusive(p) ==
    << IF HasTitle(p) THEN Award(15, <<>>)
       ELSE Award(0, <<Issue("Missing title tag")>>),
       IF ~HasTitle(p) THEN Award(0, <<>>)
       ELSE IF p.titleLen > 50 /\ p.titleLen < 60 THEN Award(10, <<>>)
       ELSE IF p.titleLen <= 50
       THEN Award(5, <<Issue("Title tag is too short (< 50 characters)")>>)
       ELSE Award(5, <<Issue("Title tag is too long (> 60 characters)")>>) >>

\* Check title tag: presence, then length band
titleChecks(p) ==
    << IF HasTitle(p) THEN Award(15, <<>>)
       ELSE Award(0, <<Issue("Missing title tag")>>),
       IF ~HasTitle(p) THEN Award(0, <<>>)
       ELSE IF p.titleLen >= 50 /\ p.titleLen <= 60 THEN Award(10, <<>>)
       ELSE IF p.titleLen < 50
       THEN Award(5, <<Issue("Title tag is too short (< 50 characters)")>>)
       ELSE IF p.titleLen > 60
       THEN Award(5, <<Issue("Title tag is too long (> 60 characters)")>>)
       ELSE Award(0, <<>>) >>

onPageChecks(p) ==
    titleChecks(p) \o
    << \* Check meta description: presence
       IF p.metaDescLen # 0 THEN Award(15, <<>>)
       ELSE Award(0, <<Issue("Missing meta description")>>),
       \* Check meta description: length band
       IF p.metaDescLen = 0 THEN Award(0, <<>>)
       ELSE IF p.metaDescLen >= 150 /\ p.metaDescLen <= 160 THEN Award(10, <<>>)
       ELSE IF p.metaDescLen < 150
       THEN Award(5, <<Issue("Meta description is too short (< 150 characters)")>>)
       ELSE IF p.metaDescLen > 160
       THEN Award(5, <<Issue("Meta description is too long (> 160 characters)")>>)
       ELSE Award(0, <<>>),
       \* Check H1 tag
       IF p.h1 > 0
       THEN IF p.h1 = 1 THEN Award(15, <<>>)
            ELSE Award(5, <<Issuef("Multiple H1 tags found (%d)", p.h1)>>)
       ELSE Award(0, <<Issue("Missing H1 tag")>>),
       \* Check H2 tags
       IF p.h2 > 0 THEN Award(5, <<>>) ELSE Award(0, <<>>),
       \* Check heading hierarchy
       IF checkHeadingHierarchy(p) THEN Award(10, <<>>)
       ELSE Award(0, <<Issue("Improper heading hierarchy")>>),
       \* Check Open Graph tags
       IF HasOGTags(p) THEN Award(10, <<>>)
       ELSE Award(0, <<Issue("Incomplete Open Graph tags")>>),
       \* Check Twitter Card tags
       IF p.twitterCard > 0 THEN Award(5, <<>>)
       ELSE Award(0, <<Issue("Missing Twitter Card tags")>>),
       \* Check canonical tag
       IF p.canonical > 0 THEN Award(10, <<>>)
       ELSE Award(0, <<Issue("Missing canonical tag")>>),
       \* Check if keyword in title (basic check)
       IF HasTitle(p) /\ p.titleLen > 0 THEN Award(5, <<>>) ELSE Award(0, <<>>) >>

auditOnPageSEO(p) ==
    LET checks == onPageChecks(p)
    IN  [ Score                  |-> Pt * SumPts(checks),
          MaxScore               |-> Pt * 100,
          HasTitle               |-> HasTitle(p),
          TitleLength            |-> p.titleLen,
          HasMetaDescription     |-> p.metaDescLen # 0,
          MetaDescriptionLength  |-> p.metaDescLen,
          HasH1                  |-> p.h1 > 0,
          H1Count                |-> p.h1,
          H2Count                |-> p.h2,
          HasOGTags              |-> HasOGTags(p),
          HasTwitterCard         |-> p.twitterCard > 0,
          HasCanonical           |-> p.canonical > 0,
          KeywordInTitle         |-> HasTitle(p) /\ p.titleLen > 0,
          ProperHeadingHierarchy |-> checkHeadingHierarchy(p),
          Issues                 |-> ConcatIssues(checks) ]

----------------------------------------------------------------------------
(* Links of the page, as the Content and Link scorers read them.  An href  *)
(* is [kind, host, parseOk]: kind says which of the prefixes the code      *)
(* tests it has ("empty" is the empty string, "absolute" starts with       *)
(* http:// or https://, "rooted" with /, "fragment" with #, "relative" is  *)
(* anything else); host and parseOk are what url.Parse makes of it.        *)

Href(kind, host, parseOk) == [kind |-> kind, host |-> host, parseOk |-> parseOk]

Link(href, text) == [href |-> href, text |-> text]

\* strings.TrimSpace, strings.ToLower and len on the anchor texts of the model
TrimSpace(s) ==
    CASE s = "   " -> ""
      [] s = " here " -> "here"
      [] OTHER -> s

ToLower(s) ==
    CASE s = "Click Here" -> "click here"
      [] s = "Read more" -> "read more"
      [] s = "Go" -> "go"
      [] s = "Pricing" -> "pricing"
      [] OTHER -> s

StrLen(s) ==
    CASE s = "" -> 0
      [] s = "Go" -> 2
      [] s = "here" -> 4
      [] s = "Pricing" -> 7
      [] s = "Read more" -> 9
      [] s = "Click Here" -> 10
      [] OTHER -> 3

\* a loop over elements, counting those whose test passed
CountTrue(flags) == Cardinality({i \in 1..Len(flags) : flags[i]})

----------------------------------------------------------------------------
(* Content Quality scorer, auditContentQuality *)

contentInternal(targetURL, l) ==
    /\ l.href.kind # "empty"
    /\ IF l.href.kind = "absolute"
       THEN l.href.parseOk /\ l.href.host = targetURL.host
       ELSE l.href.kind = "rooted" \/ l.href.kind # "fragment"

contentExternal(targetURL, l) ==
    /\ l.href.kind = "absolute"
    /\ l.href.parseOk
    /\ l.href.host # targetURL.host

\* ReadabilityScore in thousandths, 206.835 - 1.015*(words/sentences) - 84.6*1.5,
\* rounded down; sentences is the number of '.', '!' and '?' in the body text
ReadabilityScore(p) ==
    IF p.wordCount > 0
    THEN LET sentences == IF p.sentences = 0 THEN 1 ELSE p.sentences
         IN  206835 - ((1015 * p.wordCount + sentences - 1) \div sentences) - 126900
    ELSE 0

\* a page without images scored as full alt-text coverage
altTextCheckNoImagesFull(imgAlts) ==
    LET imageCount    == Len(imgAlts)
        imagesWithAlt == CountTrue(imgAlts)
    IN  IF imageCount > 0
        THEN LET pct == RoundHalfEven(imagesWithAlt * 100, imageCount)
             IN  IF imagesWithAlt * 100 = 100 * imageCount THEN Award(20, <<>>)
                 ELSE IF imagesWithAlt * 100 >= 75 * imageCount
                 THEN Award(15, <<Issuef("%.0f%% of images have alt text", pct)>>)
                 ELSE IF imagesWithAlt * 100 >= 50 * imageCount
                 THEN Award(10, <<Issuef("Only %.0f%% of images have alt text", pct)>>)
                 ELSE Award(5, <<Issuef("Most images missing alt text (%.0f%%)", pct)>>)
        ELSE Award(20, <<>>)

\* Count images and alt attributes; imgAlts[i] is whether image i has an alt.
\* altPercentage >= k  iff  imagesWithAlt * 100 >= k * imageCount
altTextCheck(imgAlts) ==
    LET imageCount    == Len(imgAlts)
        imagesWithAlt == CountTrue(imgAlts)
    IN  IF imageCount > 0
        THEN LET pct == RoundHalfEven(imagesWithAlt * 100, imageCount)
             IN  IF imagesWithAlt * 100 = 100 * imageCount THEN Award(20, <<>>)
                 ELSE IF imagesWithAlt * 100 >= 75 * imageCount
                 THEN Award(15, <<Issuef("%.0f%% of images have alt text", pct)>>)
                 ELSE IF imagesWithAlt * 100 >= 50 * imageCount
                 THEN Award(10, <<Issuef("Only %.0f%% of images have alt text", pct)>>)
                 ELSE Award(5, <<Issuef("Most images missing alt text (%.0f%%)", pct)>>)
        ELSE Award(10, <<>>)

contentChecks(p, targetURL) ==
    LET internalLinks == CountTrue([i \in 1..Len(p.links) |-> contentInternal(targetURL, p.links[i])])
        externalLinks == CountTrue([i \in 1..Len(p.links) |-> contentExternal(targetURL, p.links[i])])
    IN  << \* Count words
           IF p.wordCount >= 1000 THEN Award(25, <<>>)
           ELSE IF p.wordCount >= 500
           THEN Award(15, <<Issue("Content length is moderate (500-1000 words)")>>)
           ELSE IF p.wordCount >= 300
           THEN Award(10, <<Issue("Content length is short (300-500 words)")>>)
           ELSE Award(5, <<Issuef("Content is too thin (%d words)", p.wordCount)>>),
           \* Count paragraphs
           IF p.paragraphs >= 5 THEN Award(10, <<>>) ELSE Award(0, <<>>),
           \* Count images and alt attributes
           altTextCheck(p.imgAlts),
           \* Internal links
           IF internalLinks >= 3 THEN Award(15, <<>>)
           ELSE Award(5, <<Issuef("Low internal linking (%d links)", internalLinks)>>),
           \* External links
           IF externalLinks > 0 THEN Award(10, <<>>)
           ELSE Award(0, <<Issue("No external links to authoritative sources")>>),
           \* Readability
           IF p.wordCount > 0
           THEN IF ReadabilityScore(p) >= 60000 THEN Award(10, <<>>)
                ELSE Award(5, <<Issue("Content may be difficult to read")>>)
           ELSE Award(0, <<>>) >>

auditContentQuality(p, targetURL) ==
    LET checks == contentChecks(p, targetURL)
    IN  [ Score            |-> Pt * SumPts(checks),
          MaxScore         |-> Pt * 100,
          WordCount        |-> p.wordCount,
          ParagraphCount   |-> p.paragraphs,
          ImageCount       |-> Len(p.imgAlts),
          ImagesWithAlt    |-> CountTrue(p.imgAlts),
          InternalLinks    |-> CountTrue([i \in 1..Len(p.links) |-> contentInternal(targetURL, p.links[i])]),
          ExternalLinks    |-> CountTrue([i \in 1..Len(p.links) |-> contentExternal(targetURL, p.links[i])]),
          ReadabilityScore |-> ReadabilityScore(p),
          Issues           |-> ConcatIssues(checks) ]

----------------------------------------------------------------------------
(* Link Structure scorer, auditLinkStructure *)

hasAnchorText(l) == l.href.kind # "empty" /\ TrimSpace(l.text) # ""

isDescriptive(l) ==
    LET text      == TrimSpace(l.text)
        lowerText == ToLower(text)
    IN  /\ hasAnchorText(l)
        /\ lowerText # "click here"
        /\ lowerText # "read more"
        /\ lowerText # "here"
        /\ StrLen(text) > 2

linkInternal(targetURL, l) ==
    /\ l.href.kind # "empty"
    /\ IF l.href.kind = "absolute"
       THEN l.href.parseOk /\ l.href.host = targetURL.host
       ELSE l.href.kind = "rooted"

linkExternal(targetURL, l) ==
    /\ l.href.kind = "absolute"
    /\ l.href.parseOk
    /\ l.href.host # targetURL.host

\* more than 80% required in place of at least 80%
DescriptiveAnchorsStrict(p) ==
    LET totalAnchors       == CountTrue([i \in 1..Len(p.links) |-> hasAnchorText(p.links[i])])
        descriptiveAnchors == CountTrue([i \in 1..Len(p.links) |-> isDescriptive(p.links[i])])
    IN  totalAnchors > 0 /\ descriptiveAnchors * 100 > 80 * totalAnchors

DescriptiveAnchors(p) ==
    LET totalAnchors       == CountTrue([i \in 1..Len(p.links) |-> hasAnchorText(p.links[i])])
        descriptiveAnchors == CountTrue([i \in 1..Len(p.links) |-> isDescriptive(p.links[i])])
    IN  \* descriptiveAnchors / totalAnchors * 100 >= 80
        totalAnchors > 0 /\ descriptiveAnchors * 100 >= 80 * totalAnchors

linkChecks(p, targetURL) ==
    LET internalLinks == CountTrue([i \in 1..Len(p.links) |-> linkInternal(targetURL, p.links[i])])
        externalLinks == CountTrue([i \in 1..Len(p.links) |-> linkExternal(targetURL, p.links[i])])
        totalAnchors  == CountTrue([i \in 1..Len(p.links) |-> hasAnchorText(p.links[i])])
    IN  << \* Score internal links
           IF internalLinks >= 5 THEN Award(25, <<>>)
           ELSE IF internalLinks >= 3 THEN Award(15, <<>>)
           ELSE Award(5, <<Issuef("Low internal link count (%d)", internalLinks)>>),
           \* Score external links
           IF externalLinks > 0 /\ externalLinks <= 10 THEN Award(15, <<>>)
           ELSE IF externalLinks > 10
           THEN Award(10, <<Issue("High number of external links")>>)
           ELSE Award(5, <<Issue("No external links")>>),
           \* Check for descriptive anchors
           IF totalAnchors > 0
           THEN IF DescriptiveAnchors(p) THEN Award(20, <<>>)
                ELSE Award(10, <<Issue("Many links have generic anchor text")>>)
           ELSE Award(15, <<>>),
           \* Check for breadcrumbs
           IF p.breadcrumbs > 0 THEN Award(20, <<>>)
           ELSE Award(0, <<Issue("No breadcrumb navigation found")>>),
           \* Assume no broken links for now
           Award(20, <<>>) >>

auditLinkStructure(p, targetURL) ==
    LET checks == linkChecks(p, targetURL)
    IN  [ Score              |-> Pt * SumPts(checks),
          MaxScore           |-> Pt * 100,
          InternalLinks      |-> CountTrue([i \in 1..Len(p.links) |-> linkInternal(targetURL, p.links[i])]),
          ExternalLinks      |-> CountTrue([i \in 1..Len(p.links) |-> linkExternal(targetURL, p.links[i])]),
          BrokenLinks        |-> 0,
          HasBreadcrumbs     |-> p.breadcrumbs > 0,
          DescriptiveAnchors |-> DescriptiveAnchors(p),
          Issues             |-> ConcatIssues(checks) ]

----------------------------------------------------------------------------
(* Schema Markup scorer, auditSchemaMarkup.  The text of a JSON-LD script  *)
(* is [hasTypeKey, words]: whether it contains "@type" and which of the    *)
(* recognized type names it contains (strings.Contains).                   *)

RecognizedTypes ==
    <<"Organization", "BreadcrumbList", "Article", "Product", "LocalBusiness">>

typesIn(content) ==
    IF content.hasTypeKey
    THEN SelectSeq(RecognizedTypes, LAMBDA t : t \in content.words)
    ELSE <<>>

RECURSIVE SchemaTypes(_)
SchemaTypes(scripts) ==
    IF scripts = <<>> THEN <<>>
    ELSE typesIn(Head(scripts)) \o SchemaTypes(Tail(scripts))

InSeq(x, seq) == \E i \in 1..Len(seq) : seq[i] = x

schemaChecks(p) ==
    LET hasJsonLd       == Len(p.jsonLd) > 0
        types           == SchemaTypes(p.jsonLd)
        schemaTypeCount == Len(types)
    IN  << \* Check for JSON-LD schema
           IF hasJsonLd THEN Award(30, <<>>)
           ELSE Award(0, <<Issue("No structured data (schema markup) found")>>),
           \* Score based on schema types
           IF ~hasJsonLd THEN Award(0, <<>>)
           ELSE IF schemaTypeCount >= 3 THEN Award(40, <<>>)
           ELSE IF schemaTypeCount = 2 THEN Award(30, <<>>)
           ELSE IF schemaTypeCount = 1
           THEN Award(20, <<Issue("Limited schema markup types")>>)
           ELSE Award(0, <<>>),
           \* Bonus for organization schema
           IF ~hasJsonLd THEN Award(0, <<>>)
           ELSE IF InSeq("Organization", types) THEN Award(15, <<>>)
           ELSE Award(0, <<Issue("Missing Organization schema")>>),
           \* Bonus for breadcrumb schema
           IF ~hasJsonLd THEN Award(0, <<>>)
           ELSE IF InSeq("BreadcrumbList", types) THEN Award(15, <<>>)
           ELSE Award(0, <<Issue("Missing BreadcrumbList schema")>>),
           \* Also check for microdata
           IF p.itemscope > 0 /\ ~hasJsonLd
           THEN Award(20, <<Issue("Using microdata instead of JSON-LD (JSON-LD is preferred)")>>)
           ELSE Award(0, <<>>) >>

auditSchemaMarkup(p) ==
    LET checks == schemaChecks(p)
        types  == SchemaTypes(p.jsonLd)
    IN  [ Score           |-> Pt * SumPts(checks),
          MaxScore        |-> Pt * 100,
          HasSchema       |-> Len(p.jsonLd) > 0 \/ p.itemscope > 0,
          SchemaTypes     |-> types,
          HasOrganization |-> InSeq("Organization", types),
          HasBreadcrumb   |-> InSeq("BreadcrumbList", types),
          Issues          |-> ConcatIssues(checks) ]

----------------------------------------------------------------------------
(* Security scorer, auditSecurity *)

MixedContent(p, targetURL) ==
    isHTTPS(targetURL) /\ (p.httpImages > 0 \/ p.httpScripts > 0 \/ p.httpLinks > 0)

\* the placeholder taken as a successful header check
HasSecurityHeadersAssumed == TRUE

HasSecurityHeaders == FALSE

\* a variant that gives a site without HTTPS nothing for the mixed-content check
securityChecksNoFallback(targetURL, p) ==
    << IF isHTTPS(targetURL) THEN Award(40, <<>>)
       ELSE Award(0, <<Issue("Site is not using HTTPS")>>),
       IF isHTTPS(targetURL)
       THEN IF ~MixedContent(p, targetURL) THEN Award(30, <<>>)
            ELSE Award(10, <<Issue("Mixed content detected (HTTP resources on HTTPS page)")>>)
       ELSE Award(0, <<>>),
       IF HasSecurityHeaders THEN Award(30, <<>>)
       ELSE Award(15, <<Issue("Unable to verify security headers")>>) >>

securityChecks(targetURL, p) ==
    << \* Check HTTPS
       IF isHTTPS(targetURL) THEN Award(40, <<>>)
       ELSE Award(0, <<Issue("Site is not using HTTPS")>>),
       \* Check for mixed content
       IF isHTTPS(targetURL)
       THEN IF ~MixedContent(p, targetURL) THEN Award(30, <<>>)
            ELSE Award(10, <<Issue("Mixed content detected (HTTP resources on HTTPS page)")>>)
       ELSE Award(15, <<>>),
       \* Check for security headers
       IF HasSecurityHeaders THEN Award(30, <<>>)
       ELSE Award(15, <<Issue("Unable to verify security headers")>>) >>

auditSecurity(targetURL, p) ==
    LET checks == securityChecks(targetURL, p)
    IN  [ Score              |-> Pt * SumPts(checks),
          MaxScore           |-> Pt * 100,
          IsHTTPS            |-> isHTTPS(targetURL),
          HasSSL             |-> isHTTPS(targetURL),
          MixedContent       |-> MixedContent(p, targetURL),
          HasSecurityHeaders |-> HasSecurityHeaders,
          Issues             |-> ConcatIssues(checks) ]

----------------------------------------------------------------------------
(* User Experience scorer, auditUserExperience.  bodyFontSize is the       *)
(* computed font-size string, or NoFontSize when the evaluation gave nil.  *)

NoFontSize == "<nil>"

\* strings.HasPrefix(fontSize, "1") and the string comparison fontSize >= "14px"
\* (byte-wise, as Go compares strings) on the font sizes of the model
HasPrefix1(fontSize) == fontSize \in {"12px", "14px", "16px", "100px"}

GE14px(fontSize) == fontSize \in {"14px", "16px", "9px"}

FontSizeReadable(p) ==
    p.bodyFontSize # NoFontSize /\ (~HasPrefix1(p.bodyFontSize) \/ GE14px(p.bodyFontSize))

uxChecks(p) ==
    << \* Check for favicon
       IF p.favicon > 0 THEN Award(20, <<>>)
       ELSE Award(0, <<Issue("Missing favicon")>>),
       \* Check for lang attribute
       IF p.lang > 0 THEN Award(25, <<>>)
       ELSE Award(0, <<Issue("Missing lang attribute on html tag")>>),
       \* Check font size
       IF p.bodyFontSize # NoFontSize
       THEN IF FontSizeReadable(p) THEN Award(25, <<>>)
            ELSE Award(10, <<Issue("Font size may be too small for comfortable reading")>>)
       ELSE Award(15, <<>>),
       \* Check for intrusive popups/modals
       IF p.modals = 0 THEN Award(30, <<>>)
       ELSE Award(15, <<Issue("Intrusive popups detected")>>) >>

auditUserExperience(p) ==
    LET checks == uxChecks(p)
    IN  [ Score             |-> Pt * SumPts(checks),
          MaxScore          |-> Pt * 100,
          HasFavicon        |-> p.favicon > 0,
          FontSizeReadable  |-> FontSizeReadable(p),
          HasLangAttribute  |-> p.lang > 0,
          NoIntrusivePopups |-> p.modals = 0,
          Issues            |-> ConcatIssues(checks) ]

----------------------------------------------------------------------------
(* Web-Vitals scorer, auditWebVitals.  The collected metrics arrive as an  *)
(* untyped map: an entry is Nil (no such key) or [type, v] with type "int" *)
(* or "float64", as the browser binding delivered the number.  Units of v: *)
(* lcp, fcp in ms; inp, ttfb in tenths of a ms when float64; cls in        *)
(* ten-thousandths when float64; a count or a size is v itself.            *)

IsInt(m) == m # Nil /\ m.type = "int"

IsFloat(m) == m # Nil /\ m.type = "float64"

rateLCP(lcp) ==
    IF lcp <= 2500 THEN "good"
    ELSE IF lcp <= 4000 THEN "needs-improvement"
    ELSE "poor"

rateFCP(fcp) ==
    IF fcp <= 1800 THEN "good"
    ELSE IF fcp <= 3000 THEN "needs-improvement"
    ELSE "poor"

\* the thresholds compared with < in place of <=
rateCLSExclusive(cls) ==
    IF cls < 1000 THEN "good"
    ELSE IF cls < 2500 THEN "needs-improvement"
    ELSE "poor"

\* cls in ten-thousandths
rateCLS(cls) ==
    IF cls <= 1000 THEN "good"
    ELSE IF cls <= 2500 THEN "needs-improvement"
    ELSE "poor"

\* ttfb in tenths of a ms
rateTTFB(ttfb) ==
    IF ttfb <= 8000 THEN "good"
    ELSE IF ttfb <= 18000 THEN "needs-improvement"
    ELSE "poor"

\* inp in tenths of a ms
rateINP(inp) ==
    IF inp <= 2000 THEN "good"
    ELSE IF inp <= 5000 THEN "needs-improvement"
    ELSE "poor"

\* needs-improvement worth half of maxPointsPerMetric
ratingPointsHalf(rating) ==
    CASE rating = "good" -> 20
      [] rating = "needs-improvement" -> 10
      [] rating = "poor" -> 4
      [] OTHER -> 0

\* points of one metric, of maxPointsPerMetric = 20: 20, 20*0.6, 20*0.2
ratingPoints(rating) ==
    CASE rating = "good" -> 20
      [] rating = "needs-improvement" -> 12
      [] rating = "poor" -> 4
      [] OTHER -> 0

\* wv holds LCP, FCP, INP, TTFB and the five ratings; the result is in Pt units
calculateWebVitalsScore(wv) ==
    LET counted == << wv.LCP > 0, wv.FCP > 0, TRUE, wv.INP > 0, wv.TTFB > 0 >>
        ratings == << wv.LCPRating, wv.FCPRating, wv.CLSRating,
                      wv.INPRating, wv.TTFBRating >>
        metricCount == Cardinality({i \in 1..5 : counted[i]})
        score == SumPts([i \in 1..5 |->
                     Award(IF counted[i] THEN ratingPoints(ratings[i]) ELSE 0, <<>>)])
    IN  IF metricCount > 0 /\ metricCount < 5
        THEN (Pt * score * 100) \div (metricCount * 20)
        ELSE Pt * score

\* the fields set from the collected metrics (zero values when not collected)
webVitalsMetrics(p) ==
    LET got == p.collectOk
        lcpOk  == got /\ IsInt(p.lcp) /\ p.lcp.v > 0
        fcpOk  == got /\ IsInt(p.fcp) /\ p.fcp.v > 0
        clsOk  == got /\ IsFloat(p.cls)
        inpOk  == got /\ IsFloat(p.inp) /\ p.inp.v > 0
        ttfbOk == got /\ IsFloat(p.ttfb) /\ p.ttfb.v > 0
    IN  [ LCP           |-> IF lcpOk THEN p.lcp.v ELSE 0,
          LCPRating     |-> IF lcpOk THEN rateLCP(p.lcp.v) ELSE "",
          FCP           |-> IF fcpOk THEN p.fcp.v ELSE 0,
          FCPRating     |-> IF fcpOk THEN rateFCP(p.fcp.v) ELSE "",
          \* math.Round(cls*1000) / 1000, in thousandths
          CLS           |-> IF clsOk THEN RoundHalfUp(p.cls.v, 10) ELSE 0,
          CLSRating     |-> IF clsOk THEN rateCLS(p.cls.v) ELSE "",
          INP           |-> IF inpOk THEN p.inp.v ELSE 0,
          INPRating     |-> IF inpOk THEN rateINP(p.inp.v) ELSE "",
          TTFB          |-> IF ttfbOk THEN p.ttfb.v ELSE 0,
          TTFBRating    |-> IF ttfbOk THEN rateTTFB(p.ttfb.v) ELSE "",
          TransferSize  |-> IF got /\ IsFloat(p.transferSize) THEN p.transferSize.v ELSE 0,
          ResourceCount |-> IF got /\ IsFloat(p.resourceCount) THEN p.resourceCount.v ELSE 0 ]

\* one issue for a rating that is poor or needs improvement
ratingIssue(rating, poorText, improveText, value) ==
    IF rating = "poor" THEN <<Issuef(poorText, value)>>
    ELSE IF rating = "needs-improvement" THEN <<Issuef(improveText, value)>>
    ELSE <<>>

\* formatBytes: "%.1f %cB" of bytes/1024^k; here the tenths of a MB
formatBytes(bytes) == RoundHalfEven(bytes * 10, MB)

webVitalsIssues(p, wv) ==
    (IF p.initOk THEN <<>> ELSE <<Issue("Failed to initialize web-vitals listeners")>>)
    \o ratingIssue(wv.LCPRating, "LCP is poor (%.dms) - should be under 2500ms",
                   "LCP needs improvement (%.dms) - aim for under 2500ms", wv.LCP)
    \o ratingIssue(wv.FCPRating, "FCP is poor (%.dms) - should be under 1800ms",
                   "FCP needs improvement (%.dms) - aim for under 1800ms", wv.FCP)
    \o ratingIssue(wv.CLSRating, "CLS is poor (%.3f) - should be under 0.1",
                   "CLS needs improvement (%.3f) - aim for under 0.1", wv.CLS)
    \o (IF wv.INP > 0
        THEN ratingIssue(wv.INPRating, "INP is poor (%.0fms) - should be under 200ms",
                         "INP needs improvement (%.0fms) - aim for under 200ms",
                         RoundHalfEven(wv.INP, 10))
        ELSE <<>>)
    \o ratingIssue(wv.TTFBRating, "TTFB is poor (%.0fms) - should be under 800ms",
                   "TTFB needs improvement (%.0fms) - aim for under 800ms",
                   RoundHalfEven(wv.TTFB, 10))
    \o (IF wv.ResourceCount > 100
        THEN <<Issuef("High number of resources loaded (%d) - consider reducing HTTP requests",
                      wv.ResourceCount)>>
        ELSE <<>>)
    \o (IF wv.TransferSize > 5 * MB
        THEN <<Issuef("Large total transfer size (%s) - consider optimizing assets",
                      formatBytes(wv.TransferSize))>>
        ELSE <<>>)

zeroWebVitals ==
    [ LCP |-> 0, LCPRating |-> "", FCP |-> 0, FCPRating |-> "", CLS |-> 0,
      CLSRating |-> "", INP |-> 0, INPRating |-> "", TTFB |-> 0, TTFBRating |-> "",
      TransferSize |-> 0, ResourceCount |-> 0 ]

auditWebVitals(p) ==
    IF ~p.readFileOk
    THEN zeroWebVitals @@ [ Score |-> 0, MaxScore |-> Pt * 100,
             Issues |-> <<Issue("Failed to read web-vitals library file")>> ]
    ELSE IF ~p.injectOk
    THEN zeroWebVitals @@ [ Score |-> 0, MaxScore |-> Pt * 100,
             Issues |-> <<Issue("Failed to inject web-vitals library")>> ]
    ELSE LET wv == webVitalsMetrics(p)
         IN  wv @@ [ Score    |-> calculateWebVitalsScore(wv),
                     MaxScore |-> Pt * 100,
                     Issues   |-> webVitalsIssues(p, wv) ]

----------------------------------------------------------------------------
(* Aggregator, grader, recommendation synthesizer, report renderer *)

\* weights that do not sum to 1: technical 0.35
weightsHeavy ==
    [ technical |-> 35, onpage |-> 25, content |-> 20, links |-> 10,
      schema |-> 5, security |-> 5, ux |-> 5 ]

\* the weights of calculateOverallScore, in hundredths
weights ==
    [ technical |-> 30, onpage |-> 25, content |-> 20, links |-> 10,
      schema |-> 5, security |-> 5, ux |-> 5 ]

\* (Score / MaxScore) * 100 * weight, in units of 1/Pt ten-thousandths (exact
\* for a MaxScore of 100 points)
weighted(category, weight) ==
    (category.Score * Pt * 10000 * weight) \div category.MaxScore

\* truncation in place of math.Round
round2Truncating(score) == score \div (Pt * 100)

\* math.Round(score*100) / 100: from 1/Pt ten-thousandths to hundredths
round2(score) ==
    IF score >= 0 THEN RoundHalfUp(score, Pt * 100)
    ELSE 0 - RoundHalfUp(0 - score, Pt * 100)

\* a variant that shares the user-experience weight with the Web-Vitals score
calculateOverallScoreWithVitals(a) ==
    round2( weighted(a.TechnicalSEO, weights.technical)
          + weighted(a.OnPageSEO, weights.onpage)
          + weighted(a.ContentQuality, weights.content)
          + weighted(a.LinkStructure, weights.links)
          + weighted(a.SchemaMarkup, weights.schema)
          + weighted(a.Security, weights.security)
          + weighted(a.UserExperience, weights.ux - 2)
          + weighted(a.WebVitals, 2) )

calculateOverallScore(a) ==
    round2( weighted(a.TechnicalSEO, weights.technical)
          + weighted(a.OnPageSEO, weights.onpage)
          + weighted(a.ContentQuality, weights.content)
          + weighted(a.LinkStructure, weights.links)
          + weighted(a.SchemaMarkup, weights.schema)
          + weighted(a.Security, weights.security)
          + weighted(a.UserExperience, weights.ux) )

\* the breakpoints compared with > in place of >=
calculateGradeStrict(score) ==
    IF score > 9000 THEN "A+"
    ELSE IF score > 8500 THEN "A"
    ELSE IF score > 8000 THEN "A-"
    ELSE IF score > 7500 THEN "B+"
    ELSE IF score > 7000 THEN "B"
    ELSE IF score > 6500 THEN "B-"
    ELSE IF score > 6000 THEN "C+"
    ELSE IF score > 5500 THEN "C"
    ELSE IF score > 5000 THEN "C-"
    ELSE IF score > 4500 THEN "D+"
    ELSE IF score > 4000 THEN "D"
    ELSE "F"

\* the labels of two cases of the switch exchanged: >= 85 is A-, >= 80 is A
calculateGradeSwapped(score) ==
    IF score >= 9000 THEN "A+"
    ELSE IF score >= 8500 THEN "A-"
    ELSE IF score >= 8000 THEN "A"
    ELSE IF score >= 7500 THEN "B+"
    ELSE IF score >= 7000 THEN "B"
    ELSE IF score >= 6500 THEN "B-"
    ELSE IF score >= 6000 THEN "C+"
    ELSE IF score >= 5500 THEN "C"
    ELSE IF score >= 5000 THEN "C-"
    ELSE IF score >= 4500 THEN "D+"
    ELSE IF score >= 4000 THEN "D"
    ELSE "F"

\* score in hundredths
calculateGrade(score) ==
    IF score >= 9000 THEN "A+"
    ELSE IF score >= 8500 THEN "A"
    ELSE IF score >= 8000 THEN "A-"
    ELSE IF score >= 7500 THEN "B+"
    ELSE IF score >= 7000 THEN "B"
    ELSE IF score >= 6500 THEN "B-"
    ELSE IF score >= 6000 THEN "C+"
    ELSE IF score >= 5500 THEN "C"
    ELSE IF score >= 5000 THEN "C-"
    ELSE IF score >= 4500 THEN "D+"
    ELSE IF score >= 4000 THEN "D"
    ELSE "F"

CriticalTechnical == Issue("CRITICAL: Address technical SEO issues immediately")

CriticalHTTPS == Issue("CRITICAL: Implement HTTPS for security and SEO")

CriticalTitle == Issue("CRITICAL: Add a title tag to the page")

\* the Web-Vitals issues appended before the User Experience issues
\* a variant that keeps only the first occurrence of an issue text
collectIssuesDistinct(a) ==
    LET all == a.TechnicalSEO.Issues \o a.OnPageSEO.Issues \o a.ContentQuality.Issues
               \o a.LinkStructure.Issues \o a.SchemaMarkup.Issues \o a.Security.Issues
               \o a.UserExperience.Issues \o a.WebVitals.Issues
        first == {i \in 1..Len(all) : \A j \in 1..(i - 1) : all[j] # all[i]}
        nth(k) == CHOOSE i \in first : Cardinality({j \in first : j < i}) = k - 1
    IN  [k \in 1..Cardinality(first) |-> all[nth(k)]]

collectIssuesSwapped(a) ==
    a.TechnicalSEO.Issues \o a.OnPageSEO.Issues \o a.ContentQuality.Issues
    \o a.LinkStructure.Issues \o a.SchemaMarkup.Issues \o a.Security.Issues
    \o a.WebVitals.Issues \o a.UserExperience.Issues

\* Collect all issues from all categories
collectIssues(a) ==
    a.TechnicalSEO.Issues \o a.OnPageSEO.Issues \o a.ContentQuality.Issues
    \o a.LinkStructure.Issues \o a.SchemaMarkup.Issues \o a.Security.Issues
    \o a.UserExperience.Issues \o a.WebVitals.Issues

\* the recommendations kept in a slice shared by all audits, never reset
generateRecommendationsShared(a) ==
    LET kept == IF last = Nil THEN <<>> ELSE last.Recommendations
        r0 == kept \o collectIssues(a)
        r1 == IF a.TechnicalSEO.Score < Pt * 50 THEN <<CriticalTechnical>> \o r0 ELSE r0
        r2 == IF ~a.Security.IsHTTPS THEN <<CriticalHTTPS>> \o r1 ELSE r1
        r3 == IF ~a.OnPageSEO.HasTitle THEN <<CriticalTitle>> \o r2 ELSE r2
    IN  r3

\* the critical markers appended at the end instead of prepended
generateRecommendationsAppending(a) ==
    LET r0 == collectIssues(a)
        r1 == IF a.TechnicalSEO.Score < Pt * 50 THEN r0 \o <<CriticalTechnical>> ELSE r0
        r2 == IF ~a.Security.IsHTTPS THEN r1 \o <<CriticalHTTPS>> ELSE r1
        r3 == IF ~a.OnPageSEO.HasTitle THEN r2 \o <<CriticalTitle>> ELSE r2
    IN  r3

generateRecommendations(a) ==
    LET r0 == collectIssues(a)
        r1 == IF a.TechnicalSEO.Score < Pt * 50 THEN <<CriticalTechnical>> \o r0 ELSE r0
        r2 == IF ~a.Security.IsHTTPS THEN <<CriticalHTTPS>> \o r1 ELSE r1
        r3 == IF ~a.OnPageSEO.HasTitle THEN <<CriticalTitle>> \o r2 ELSE r2
    IN  r3

\* one row of the score table: "%.0f | %.0f | %.0f%%"
breakdownRow(category) ==
    << RoundHalfEven(category.Score, Pt), RoundHalfEven(category.MaxScore, Pt),
       RoundHalfEven(category.Score * 100, category.MaxScore) >>

\* the parts of the report that vary with the audit
generateMarkdown(a) ==
    [ URL          |-> a.URL,
      AuditDate    |-> a.Timestamp,
      OverallScore |-> RoundHalfEven(a.OverallScore, 10),
      Grade        |-> a.Grade,
      Breakdown    |-> << breakdownRow(a.TechnicalSEO), breakdownRow(a.OnPageSEO),
                          breakdownRow(a.ContentQuality), breakdownRow(a.LinkStructure),
                          breakdownRow(a.SchemaMarkup), breakdownRow(a.Security),
                          breakdownRow(a.UserExperience), breakdownRow(a.WebVitals) >>,
      IssuesFound  |-> << a.TechnicalSEO.Issues, a.OnPageSEO.Issues,
                          a.ContentQuality.Issues, a.LinkStructure.Issues,
                          a.SchemaMarkup.Issues, a.Security.Issues,
                          a.UserExperience.Issues, a.WebVitals.Issues >>,
      Summary      |-> a.Recommendations ]

----------------------------------------------------------------------------
(* The SEOAudit value and the inputs the scorers are exercised on *)

zeroCategory == [Score |-> 0, MaxScore |-> 0, Issues |-> <<>>]

\* audit := &SEOAudit{URL: targetURL, Timestamp: time.Now()}
newAudit(targetURL, t) ==
    [ URL |-> targetURL, Timestamp |-> t,
      TechnicalSEO |-> zeroCategory, OnPageSEO |-> zeroCategory,
      ContentQuality |-> zeroCategory, LinkStructure |-> zeroCategory,
      SchemaMarkup |-> zeroCategory, Security |-> zeroCategory,
      UserExperience |-> zeroCategory, WebVitals |-> zeroCategory,
      OverallScore |-> 0, Grade |-> "", Recommendations |-> <<>>, Markdown |-> Nil ]

\* "Run all audits": the eight scorers on the loaded page p
runAllAudits(a, p) ==
    [ a EXCEPT !.TechnicalSEO   = auditTechnicalSEO(p, a.URL, p.loadTime),
               !.OnPageSEO      = auditOnPageSEO(p),
               !.ContentQuality = auditContentQuality(p, a.URL),
               !.LinkStructure  = auditLinkStructure(p, a.URL),
               !.SchemaMarkup   = auditSchemaMarkup(p),
               !.Security       = auditSecurity(a.URL, p),
               !.UserExperience = auditUserExperience(p),
               !.WebVitals      = auditWebVitals(p) ]

\* what follows the scorers: overall score, grade, recommendations, report
finishAudit(a) ==
    LET a1 == [a  EXCEPT !.OverallScore = calculateOverallScore(a)]
        a2 == [a1 EXCEPT !.Grade = calculateGrade(a1.OverallScore)]
        a3 == [a2 EXCEPT !.Recommendations = generateRecommendations(a2)]
    IN  [a3 EXCEPT !.Markdown = generateMarkdown(a3)]

\* the audit AuditWebsite returns when the page p loads, started at time t
AuditWebsite(targetURL, p, t) == finishAudit(runAllAudits(newAudit(targetURL, t), p))

MaxImages == 4
MaxJsonLd == 2

Site == "example.com"

URLs == [scheme : {"http", "https"}, host : {Site}]

\* all sequences over S of length at most n
RECURSIVE SeqsUpTo(_, _)
SeqsUpTo(S, n) ==
    IF n = 0 THEN {<<>>}
    ELSE LET shorter == SeqsUpTo(S, n - 1)
         IN  shorter \cup {Append(q, x) : q \in shorter, x \in S}

Counts == {0, 1}

TechnicalInputs ==
    [ viewport : Counts, robotsTxt : BOOLEAN, sitemap : BOOLEAN,
      loadTime : {1999, 2000, 2999, 3000, 4999, 5000},
      contentLen : {3 * MB - 1, 3 * MB},
      imgAlts : SeqsUpTo({TRUE}, 1), scripts : {0, 48, 49, 98, 99},
      stylesheets : Counts, canonical : Counts ]

Titles ==
    {[titleErr |-> TRUE, titleLen |-> 0]}
    \cup [titleErr : {FALSE}, titleLen : {0, 49, 50, 60, 61}]

Headings == [h1 : 0..2, h2 : Counts, h3 : Counts, h4 : Counts, h5 : Counts, h6 : Counts]

OpenGraphs == [ogTitle : Counts, ogDesc : Counts, ogImage : Counts]

\* every heading pattern with the other signals at their extremes, and every
\* combination of the other signals with the headings all alike
OnPageInputs ==
    LET others == [metaDescLen : {0, 149, 150, 160, 161},
                   twitterCard : Counts, canonical : Counts]
        plainHeadings == {h \in Headings : h.h3 = h.h4 /\ h.h4 = h.h5 /\ h.h5 = h.h6}
        extremes == { [titleErr |-> FALSE, titleLen |-> 50] @@ [metaDescLen |-> 150,
                        twitterCard |-> 1, canonical |-> 1, ogTitle |-> 1, ogDesc |-> 1,
                        ogImage |-> 1],
                      [titleErr |-> FALSE, titleLen |-> 0] @@ [metaDescLen |-> 0,
                        twitterCard |-> 0, canonical |-> 0, ogTitle |-> 0, ogDesc |-> 0,
                        ogImage |-> 0] }
    IN  {t @@ o @@ g @@ h : t \in Titles, o \in others, g \in OpenGraphs, h \in plainHeadings}
        \cup {e @@ h : e \in extremes, h \in Headings}

SameHost == Href("absolute", Site, TRUE)
OtherHost == Href("absolute", "other.org", TRUE)

\* hrefs the two link loops treat differently, or skip
OddLinks ==
    { <<>>,
      <<Link(Href("empty", "", TRUE), "Pricing")>>,
      <<Link(Href("fragment", "", TRUE), "Pricing")>>,
      <<Link(Href("relative", "", TRUE), "Pricing")>>,
      <<Link(Href("absolute", "", FALSE), "   ")>> }

LinkLists ==
    { Rep(a, Link(SameHost, "Pricing")) \o Rep(g, Link(Href("rooted", "", TRUE), t))
        \o Rep(e, Link(OtherHost, "Read more")) \o odd :
        a \in {0, 2, 3, 4}, g \in 0..2, t \in {"Click Here", " here ", "Go", ""},
        e \in {0, 1, 10, 11}, odd \in OddLinks }

ContentLinkLists ==
    { Rep(a, Link(SameHost, "Pricing")) \o Rep(e, Link(OtherHost, "Pricing")) \o odd :
        a \in {0, 2, 3}, e \in {0, 1}, odd \in OddLinks }

ContentInputs ==
    [ wordCount : {0, 299, 300, 499, 500, 999, 1000}, sentences : {0, 50, 51},
      paragraphs : {4, 5}, imgAlts : SeqsUpTo(BOOLEAN, MaxImages),
      links : ContentLinkLists ]

LinkInputs == [links : LinkLists, breadcrumbs : Counts]

JsonLdContents ==
    {[hasTypeKey |-> FALSE, words |-> {"Organization"}]}
    \cup [ hasTypeKey : {TRUE},
           words : { {}, {"Organization"}, {"BreadcrumbList"}, {"Article"},
                     {"Product", "LocalBusiness"},
                     {"Organization", "BreadcrumbList", "Article"} } ]

SchemaInputs == [jsonLd : SeqsUpTo(JsonLdContents, MaxJsonLd), itemscope : Counts]

SecurityInputs == [httpImages : Counts, httpScripts : Counts, httpLinks : Counts]

FontSizes == {NoFontSize, "9px", "12px", "14px", "16px", "100px"}

UXInputs == [favicon : Counts, lang : Counts, bodyFontSize : FontSizes, modals : Counts]

I(v) == [type |-> "int", v |-> v]
F(v) == [type |-> "float64", v |-> v]

\* every combination of the five metrics with few resources, and every
\* resource count and transfer size with the metrics at two fixed values
WebVitalsInputs ==
    LET metrics ==
            [ lcp  : {Nil, F(12005), I(2500), I(2501), I(4000), I(4001)},
              fcp  : {Nil, I(1800), I(1801), I(3000), I(3001)},
              cls  : {Nil, I(0), F(500), F(1000), F(1001), F(2500), F(2501)},
              inp  : {Nil, F(2000), F(2001), F(5000), F(5001)},
              ttfb : {Nil, F(8000), F(8001), F(18000), F(18001)} ]
        fixed == { [lcp |-> I(2500), fcp |-> I(1800), cls |-> F(500), inp |-> F(2000),
                    ttfb |-> F(8000)],
                   [lcp |-> Nil, fcp |-> Nil, cls |-> Nil, inp |-> Nil, ttfb |-> Nil] }
        light == [ readFileOk : {TRUE}, injectOk : {TRUE}, initOk : {TRUE},
                   collectOk : {TRUE}, resourceCount : {F(100)},
                   transferSize : {F(5 * MB)} ]
        loads == [ readFileOk : BOOLEAN, injectOk : BOOLEAN, initOk : BOOLEAN,
                   collectOk : BOOLEAN,
                   resourceCount : {Nil, I(101), F(100), F(101)},
                   transferSize : {Nil, I(5 * MB + 1), F(5 * MB), F(5 * MB + 1)} ]
    IN  {m @@ l : m \in metrics, l \in light} \cup {m @@ l : m \in fixed, l \in loads}

----------------------------------------------------------------------------
(* SpecScorers: each category scorer applied to every input of its domain *)

Scorers ==
    { "technical", "onpage", "content", "links", "schema", "security", "ux", "webvitals" }

InputsOf(scorer) ==
    CASE scorer = "technical" -> TechnicalInputs
      [] scorer = "onpage"    -> OnPageInputs
      [] scorer = "content"   -> ContentInputs
      [] scorer = "links"     -> LinkInputs
      [] scorer = "schema"    -> SchemaInputs
      [] scorer = "security"  -> SecurityInputs
      [] scorer = "ux"        -> UXInputs
      [] scorer = "webvitals" -> WebVitalsInputs

InitScorers ==
    /\ pc \in Scorers
    /\ url \in URLs
    /\ page \in InputsOf(pc)
    /\ audit = newAudit(url, 0)
    /\ result = Nil
    /\ calls = <<>>
    /\ now = 0
    /\ openPages = 0
    /\ last = Nil
    /\ served = 0

Scored(scorer, field, value) ==
    /\ pc = scorer
    /\ audit' = [audit EXCEPT ![field] = value]
    /\ calls' = <<scorer>>
    /\ pc' = "scored"
    /\ UNCHANGED <<url, page, result, now, openPages, last, served>>

ScoreTechnical == Scored("technical", "TechnicalSEO", auditTechnicalSEO(page, url, page.loadTime))

ScoreOnPage == Scored("onpage", "OnPageSEO", auditOnPageSEO(page))

ScoreContent == Scored("content", "ContentQuality", auditContentQuality(page, url))

ScoreLinks == Scored("links", "LinkStructure", auditLinkStructure(page, url))

ScoreSchema == Scored("schema", "SchemaMarkup", auditSchemaMarkup(page))

ScoreSecurity == Scored("security", "Security", auditSecurity(url, page))

ScoreUX == Scored("ux", "UserExperience", auditUserExperience(page))

ScoreWebVitals == Scored("webvitals", "WebVitals", auditWebVitals(page))

NextScorers ==
    \/ ScoreTechnical
    \/ ScoreOnPage
    \/ ScoreContent
    \/ ScoreLinks
    \/ ScoreSchema
    \/ ScoreSecurity
    \/ ScoreUX
    \/ ScoreWebVitals

SpecScorers == InitScorers /\ [][NextScorers]_vars

----------------------------------------------------------------------------
(* Spec: the service auditing one site, request after request.  The site   *)
(* (its URL and what its page answers) is fixed by Init; each request runs *)
(* AuditWebsite from page creation to return.                              *)

MaxAudits == 2

TechnicalProfiles ==
    { [viewport |-> 1, robotsTxt |-> TRUE, sitemap |-> TRUE, loadTime |-> 1500,
       contentLen |-> 500000, scripts |-> 29, stylesheets |-> 1],
      [viewport |-> 0, robotsTxt |-> FALSE, sitemap |-> FALSE, loadTime |-> 6000,
       contentLen |-> 3 * MB, scripts |-> 100, stylesheets |-> 1] }

OnPageProfiles ==
    { [titleErr |-> FALSE, titleLen |-> 55, metaDescLen |-> 155, h1 |-> 1, h2 |-> 1,
       h3 |-> 1, h4 |-> 0, h5 |-> 0, h6 |-> 0, ogTitle |-> 1, ogDesc |-> 1,
       ogImage |-> 1, twitterCard |-> 1, canonical |-> 1],
      [titleErr |-> FALSE, titleLen |-> 40, metaDescLen |-> 170, h1 |-> 2, h2 |-> 0,
       h3 |-> 1, h4 |-> 0, h5 |-> 0, h6 |-> 0, ogTitle |-> 1, ogDesc |-> 0,
       ogImage |-> 1, twitterCard |-> 0, canonical |-> 1],
      [titleErr |-> FALSE, titleLen |-> 0, metaDescLen |-> 0, h1 |-> 0, h2 |-> 0,
       h3 |-> 0, h4 |-> 0, h5 |-> 0, h6 |-> 0, ogTitle |-> 0, ogDesc |-> 0,
       ogImage |-> 0, twitterCard |-> 0, canonical |-> 0] }

ContentProfiles ==
    { [wordCount |-> 1200, sentences |-> 100, paragraphs |-> 8,
       imgAlts |-> <<TRUE, TRUE>>, breadcrumbs |-> 1,
       links |-> Rep(5, Link(SameHost, "Pricing")) \o Rep(2, Link(OtherHost, "Pricing"))],
      [wordCount |-> 400, sentences |-> 10, paragraphs |-> 5,
       imgAlts |-> <<TRUE, TRUE, TRUE, FALSE>>, breadcrumbs |-> 0,
       links |-> Rep(3, Link(Href("rooted", "", TRUE), "Pricing"))
                 \o Rep(11, Link(OtherHost, "Read more"))],
      [wordCount |-> 0, sentences |-> 0, paragraphs |-> 0,
       imgAlts |-> <<FALSE, FALSE, TRUE>>, breadcrumbs |-> 0,
       links |-> Rep(2, Link(Href("fragment", "", TRUE), "Click Here"))] }

SchemaProfiles ==
    { [jsonLd |-> << [hasTypeKey |-> TRUE,
                      words |-> {"Organization", "BreadcrumbList", "Article"}] >>,
       itemscope |-> 0],
      [jsonLd |-> << [hasTypeKey |-> TRUE, words |-> {"Article"}] >>, itemscope |-> 1],
      [jsonLd |-> <<>>, itemscope |-> 0] }

SecurityUXProfiles ==
    { [httpImages |-> 0, httpScripts |-> 0, httpLinks |-> 0, favicon |-> 1, lang |-> 1,
       bodyFontSize |-> "16px", modals |-> 0],
      [httpImages |-> 1, httpScripts |-> 0, httpLinks |-> 0, favicon |-> 0, lang |-> 0,
       bodyFontSize |-> "12px", modals |-> 1] }

WebVitalsProfiles ==
    { [readFileOk |-> TRUE, injectOk |-> TRUE, initOk |-> TRUE, collectOk |-> TRUE,
       lcp |-> I(2000), fcp |-> I(1000), cls |-> F(500), inp |-> F(1500),
       ttfb |-> F(3000), resourceCount |-> F(40), transferSize |-> F(MB)],
      [readFileOk |-> TRUE, injectOk |-> TRUE, initOk |-> TRUE, collectOk |-> TRUE,
       lcp |-> I(4500), fcp |-> I(2000), cls |-> I(0), inp |-> Nil,
       ttfb |-> F(20000), resourceCount |-> F(120), transferSize |-> F(6 * MB)],
      [readFileOk |-> FALSE, injectOk |-> TRUE, initOk |-> TRUE, collectOk |-> TRUE,
       lcp |-> Nil, fcp |-> Nil, cls |-> Nil, inp |-> Nil,
       ttfb |-> Nil, resourceCount |-> Nil, transferSize |-> Nil],
      [readFileOk |-> TRUE, injectOk |-> FALSE, initOk |-> TRUE, collectOk |-> TRUE,
       lcp |-> I(2000), fcp |-> I(1000), cls |-> F(500), inp |-> F(1500),
       ttfb |-> F(3000), resourceCount |-> F(40), transferSize |-> F(MB)] }

Pages ==
    { t @@ o @@ c @@ m @@ x @@ w :
        t \in TechnicalProfiles, o \in OnPageProfiles, c \in ContentProfiles,
        m \in SchemaProfiles, x \in SecurityUXProfiles, w \in WebVitalsProfiles }

NoResult == [audit |-> Nil, err |-> "none yet"]

Init ==
    /\ pc = "idle"
    /\ url \in URLs
    /\ page \in Pages
    /\ audit = Nil
    /\ result = NoResult
    /\ calls = <<>>
    /\ now = 0
    /\ openPages = 0
    /\ last = Nil
    /\ served = 0

\* the handler calls AuditWebsite: audit := &SEOAudit{URL, Timestamp: time.Now()}
Request ==
    /\ pc = "idle"
    /\ served < MaxAudits
    /\ now' = now + 1
    /\ audit' = newAudit(url, now')
    /\ last' = IF result.err = "" THEN result.audit ELSE last
    /\ result' = NoResult
    /\ calls' = <<>>
    /\ pc' = "newPage"
    /\ UNCHANGED <<url, page, openPages, served>>

\* a.browser.NewPage() succeeds; defer page.Close()
NewPageOk ==
    /\ pc = "newPage"
    /\ openPages' = openPages + 1
    /\ pc' = "goto"
    /\ UNCHANGED <<url, page, audit, result, calls, now, last, served>>

\* a.browser.NewPage() fails: return nil, err
NewPageFail ==
    /\ pc = "newPage"
    /\ result' = [audit |-> Nil, err |-> "could not create page"]
    /\ served' = served + 1
    /\ pc' = "idle"
    /\ UNCHANGED <<url, page, audit, calls, now, openPages, last>>

\* page.Goto succeeds
GotoOk ==
    /\ pc = "goto"
    /\ pc' = "technical"
    /\ UNCHANGED <<url, page, audit, result, calls, now, openPages, last, served>>

\* the navigation error reported, but the audit built so far returned with it
GotoFailPartial ==
    /\ pc = "goto"
    /\ result' = [audit |-> audit, err |-> "could not navigate to page"]
    /\ openPages' = openPages - 1
    /\ served' = served + 1
    /\ pc' = "idle"
    /\ UNCHANGED <<url, page, audit, calls, now, last>>

\* the navigation error returned without closing the page
GotoFailLeak ==
    /\ pc = "goto"
    /\ result' = [audit |-> Nil, err |-> "could not navigate to page"]
    /\ served' = served + 1
    /\ pc' = "idle"
    /\ UNCHANGED <<url, page, audit, calls, now, openPages, last>>

\* page.Goto fails or times out: return nil, err; the deferred page.Close() runs
GotoFail ==
    /\ pc = "goto"
    /\ result' = [audit |-> Nil, err |-> "could not navigate to page"]
    /\ openPages' = openPages - 1
    /\ served' = served + 1
    /\ pc' = "idle"
    /\ UNCHANGED <<url, page, audit, calls, now, last>>

\* one statement of "Run all audits" and of what follows it
Step(at, component, field, value, next) ==
    /\ pc = at
    /\ audit' = [audit EXCEPT ![field] = value]
    /\ calls' = Append(calls, component)
    /\ pc' = next
    /\ UNCHANGED <<url, page, result, now, openPages, last, served>>

StepTechnical ==
    Step("technical", "auditTechnicalSEO", "TechnicalSEO",
         auditTechnicalSEO(page, url, page.loadTime), "onpage")

StepOnPage ==
    Step("onpage", "auditOnPageSEO", "OnPageSEO", auditOnPageSEO(page), "content")

StepContent ==
    Step("content", "auditContentQuality", "ContentQuality",
         auditContentQuality(page, url), "links")

StepLinks ==
    Step("links", "auditLinkStructure", "LinkStructure",
         auditLinkStructure(page, url), "schema")

StepSchema ==
    Step("schema", "auditSchemaMarkup", "SchemaMarkup", auditSchemaMarkup(page), "security")

StepSecurity ==
    Step("security", "auditSecurity", "Security", auditSecurity(url, page), "ux")

StepUX ==
    Step("ux", "auditUserExperience", "UserExperience", auditUserExperience(page),
         "webvitals")

\* a variant in which a web-vitals script that cannot be read or injected
\* ends the audit with an error
StepWebVitalsFatal ==
    IF page.readFileOk /\ page.injectOk
    THEN Step("webvitals", "auditWebVitals", "WebVitals", auditWebVitals(page), "overall")
    ELSE /\ pc = "webvitals"
         /\ result' = [audit |-> Nil, err |-> "could not collect web vitals"]
         /\ calls' = Append(calls, "auditWebVitals")
         /\ openPages' = openPages - 1
         /\ served' = served + 1
         /\ pc' = "idle"
         /\ UNCHANGED <<url, page, audit, now, last>>

StepWebVitals ==
    Step("webvitals", "auditWebVitals", "WebVitals", auditWebVitals(page), "overall")

StepOverall ==
    Step("overall", "calculateOverallScore", "OverallScore",
         calculateOverallScore(audit), "grade")

\* a variant that grades the score the audit had before the aggregate was stored
StepGradeStale ==
    Step("grade", "calculateGrade", "Grade",
         calculateGrade(newAudit(url, now).OverallScore), "recommend")

StepGrade ==
    Step("grade", "calculateGrade", "Grade", calculateGrade(audit.OverallScore),
         "recommend")

StepRecommend ==
    Step("recommend", "generateRecommendations", "Recommendations",
         generateRecommendations(audit), "markdown")

StepMarkdown ==
    Step("markdown", "generateMarkdown", "Markdown", generateMarkdown(audit), "return")

\* return audit, nil; the deferred page.Close() runs
Return ==
    /\ pc = "return"
    /\ result' = [audit |-> audit, err |-> ""]
    /\ openPages' = openPages - 1
    /\ served' = served + 1
    /\ pc' = "idle"
    /\ UNCHANGED <<url, page, audit, calls, now, last>>

Next ==
    \/ Request
    \/ NewPageOk
    \/ NewPageFail
    \/ GotoOk
    \/ GotoFail
    \/ StepTechnical
    \/ StepOnPage
    \/ StepContent
    \/ StepLinks
    \/ StepSchema
    \/ StepSecurity
    \/ StepUX
    \/ StepWebVitals
    \/ StepOverall
    \/ StepGrade
    \/ StepRecommend
    \/ StepMarkdown
    \/ Return

Spec == Init /\ [][Next]_vars

----------------------------------------------------------------------------
(* SpecAggregate: calculateOverallScore on category scores drawn from      *)
(* AggregateScores, whatever scorer could or could not produce them.       *)
(* SpecGrade: calculateGrade on the scores of GradeInputs, which lie       *)
(* within Near hundredths of a multiple of 5 points, from ScoreSlack       *)
(* hundredths below 0 to ScoreSlack hundredths above 100.                  *)

ScoreSlack == 1000
Near == 3

\* category scores in Pt units: 0, a third of a point, 50 points, 100 points
AggregateScores == {0, 1, Pt * 50, Pt * 100}

scoredCategory(score) == [Score |-> score, MaxScore |-> Pt * 100, Issues |-> <<>>]

InitAggregate ==
    /\ pc = "overall"
    /\ url \in [scheme : {"https"}, host : {Site}]
    /\ page = Nil
    /\ \E t, o, c, l, m, x, u \in AggregateScores :
         audit = [ newAudit(url, 0) EXCEPT
                     !.TechnicalSEO = scoredCategory(t),
                     !.OnPageSEO = scoredCategory(o),
                     !.ContentQuality = scoredCategory(c),
                     !.LinkStructure = scoredCategory(l),
                     !.SchemaMarkup = scoredCategory(m),
                     !.Security = scoredCategory(x),
                     !.UserExperience = scoredCategory(u) ]
    /\ result = NoResult
    /\ calls = <<>>
    /\ now = 0
    /\ openPages = 0
    /\ last = Nil
    /\ served = 0

Aggregate ==
    /\ pc = "overall"
    /\ audit' = [audit EXCEPT !.OverallScore = calculateOverallScore(audit)]
    /\ calls' = <<"calculateOverallScore">>
    /\ pc' = "aggregated"
    /\ UNCHANGED <<url, page, result, now, openPages, last, served>>

NextAggregate == Aggregate

SpecAggregate == InitAggregate /\ [][NextAggregate]_vars

GradeInputs ==
    { s \in (0 - ScoreSlack)..(10000 + ScoreSlack) :
        s % 500 <= Near \/ s % 500 >= 500 - Near }
    \cup {8230, 3999}

InitGrade ==
    /\ pc = "grade"
    /\ url \in [scheme : {"https"}, host : {Site}]
    /\ page = Nil
    /\ \E s \in GradeInputs : audit = [newAudit(url, 0) EXCEPT !.OverallScore = s]
    /\ result = NoResult
    /\ calls = <<>>
    /\ now = 0
    /\ openPages = 0
    /\ last = Nil
    /\ served = 0

Grade ==
    /\ pc = "grade"
    /\ audit' = [audit EXCEPT !.Grade = calculateGrade(audit.OverallScore)]
    /\ calls' = <<"calculateGrade">>
    /\ pc' = "graded"
    /\ UNCHANGED <<url, page, result, now, openPages, last, served>>

NextGrade == Grade

SpecGrade == InitGrade /\ [][NextGrade]_vars

----------------------------------------------------------------------------
(* SpecService: the HTTP service of main.  MaxInFlight requests to         *)
(* /api/audit are handled concurrently, each by its own handler call on    *)
(* the single shared auditor.  Here pc, url, page, audit, result and calls *)
(* are functions of the request: url[r] is the request (method, whether    *)
(* the body parsed, target URL), result[r] the HTTP response.              *)

MaxInFlight == 2

Requests == 1..MaxInFlight

\* req.URL == "" / c.Query("url") == ""
NoURL == [scheme |-> "", host |-> ""]

GreatestPage ==
    CHOOSE p \in Pages :
        /\ p.loadTime = 1500 /\ p.titleLen = 55 /\ p.wordCount = 1200
        /\ Len(p.jsonLd) = 1 /\ p.itemscope = 0 /\ p.favicon = 1
        /\ p.readFileOk /\ p.injectOk /\ p.lcp = I(2000)

LeastPage ==
    CHOOSE p \in Pages :
        /\ p.loadTime = 6000 /\ p.titleLen = 0 /\ p.wordCount = 0
        /\ p.jsonLd = <<>> /\ p.favicon = 0 /\ ~p.readFileOk

\* a POST whose body does not parse, a POST or GET without url, and a POST
\* or GET for a URL whose page is one of two
HTTPRequests ==
    { [method |-> "POST", bodyOk |-> FALSE, target |-> NoURL, page |-> LeastPage] }
    \cup [method : {"POST", "GET"}, bodyOk : {TRUE}, target : {NoURL}, page : {LeastPage}]
    \cup [method : {"POST", "GET"}, bodyOk : {TRUE}, target : URLs,
          page : {LeastPage, GreatestPage}]

NoResponse == [status |-> 0, error |-> "", details |-> "", audit |-> Nil]

InitService ==
    /\ pc = [r \in Requests |-> "received"]
    /\ \E reqs \in [Requests -> HTTPRequests] :
         /\ url = [r \in Requests |-> [method |-> reqs[r].method, bodyOk |-> reqs[r].bodyOk,
                                       target |-> reqs[r].target]]
         /\ page = [r \in Requests |-> reqs[r].page]
    /\ audit = [r \in Requests |-> Nil]
    /\ result = [r \in Requests |-> NoResponse]
    /\ calls = [r \in Requests |-> <<>>]
    /\ now = 0
    /\ openPages = 0
    /\ last = Nil
    /\ served = 0

\* c.Status(...).JSON(fiber.Map{"error": ...}) or c.JSON(audit)
Respond(r, status, error, details, body) ==
    /\ result' = [result EXCEPT ![r] = [status |-> status, error |-> error,
                                        details |-> details, audit |-> body]]
    /\ served' = served + 1
    /\ pc' = [pc EXCEPT ![r] = "done"]

\* the handler validates nothing and always calls the auditor
HandleUnchecked(r) ==
    /\ pc[r] = "received"
    /\ now' = now + 1
    /\ audit' = [audit EXCEPT ![r] = newAudit(url[r].target, now')]
    /\ calls' = [calls EXCEPT ![r] = <<"AuditWebsite">>]
    /\ pc' = [pc EXCEPT ![r] = "newPage"]
    /\ UNCHANGED <<url, page, result, openPages, last, served>>

\* the handler calls auditor.AuditWebsite, which builds its audit object
HandleAccept(r) ==
    /\ pc[r] = "received"
    /\ url[r].bodyOk
    /\ url[r].target # NoURL
    /\ now' = now + 1
    /\ audit' = [audit EXCEPT ![r] = newAudit(url[r].target, now')]
    /\ calls' = [calls EXCEPT ![r] = <<"AuditWebsite">>]
    /\ pc' = [pc EXCEPT ![r] = "newPage"]
    /\ UNCHANGED <<url, page, result, openPages, last, served>>

\* 400: the body does not parse, or the url is empty
HandleReject(r) ==
    /\ pc[r] = "received"
    /\ ~url[r].bodyOk \/ url[r].target = NoURL
    /\ Respond(r, 400,
               IF ~url[r].bodyOk THEN "Invalid request body"
               ELSE IF url[r].method = "POST" THEN "URL is required"
               ELSE "URL query parameter is required",
               IF ~url[r].bodyOk THEN "body parser error" ELSE "",
               Nil)
    /\ UNCHANGED <<url, page, audit, calls, now, openPages, last>>

\* a.browser.NewPage() succeeds; defer page.Close()
ServiceNewPageOk(r) ==
    /\ pc[r] = "newPage"
    /\ openPages' = openPages + 1
    /\ pc' = [pc EXCEPT ![r] = "goto"]
    /\ UNCHANGED <<url, page, audit, result, calls, now, last, served>>

\* a.browser.NewPage() fails; the handler answers 500
ServiceNewPageFail(r) ==
    /\ pc[r] = "newPage"
    /\ Respond(r, 500, "Error auditing website", "could not create page", Nil)
    /\ UNCHANGED <<url, page, audit, calls, now, openPages, last>>

\* page.Goto succeeds
ServiceGotoOk(r) ==
    /\ pc[r] = "goto"
    /\ pc' = [pc EXCEPT ![r] = "audits"]
    /\ UNCHANGED <<url, page, audit, result, calls, now, openPages, last, served>>

\* page.Goto fails; the deferred page.Close() runs; the handler answers 500
ServiceGotoFail(r) ==
    /\ pc[r] = "goto"
    /\ openPages' = openPages - 1
    /\ Respond(r, 500, "Error auditing website", "could not navigate to page", Nil)
    /\ UNCHANGED <<url, page, audit, calls, now, last>>

\* the audit object kept in one field of the shared auditor: every call
\* writes the scorers' results into the audit of the first request
ServiceRunAuditsShared(r) ==
    /\ pc[r] = "audits"
    /\ audit' = [audit EXCEPT ![1] = runAllAudits(audit[r], page[r])]
    /\ calls' = [calls EXCEPT ![r] = Append(calls[r], "runAllAudits")]
    /\ pc' = [pc EXCEPT ![r] = "finish"]
    /\ UNCHANGED <<url, page, result, now, openPages, last, served>>

\* "Run all audits" on the call's own page, into the call's own audit
ServiceRunAudits(r) ==
    /\ pc[r] = "audits"
    /\ audit' = [audit EXCEPT ![r] = runAllAudits(audit[r], page[r])]
    /\ calls' = [calls EXCEPT ![r] = Append(calls[r], "runAllAudits")]
    /\ pc' = [pc EXCEPT ![r] = "finish"]
    /\ UNCHANGED <<url, page, result, now, openPages, last, served>>

\* overall score, grade, recommendations, report
ServiceFinish(r) ==
    /\ pc[r] = "finish"
    /\ audit' = [audit EXCEPT ![r] = finishAudit(audit[r])]
    /\ calls' = [calls EXCEPT ![r] = Append(calls[r], "finishAudit")]
    /\ pc' = [pc EXCEPT ![r] = "return"]
    /\ UNCHANGED <<url, page, result, now, openPages, last, served>>

\* return audit, nil; the deferred page.Close() runs; the handler answers
\* with the audit as JSON
ServiceReturn(r) ==
    /\ pc[r] = "return"
    /\ openPages' = openPages - 1
    /\ Respond(r, 200, "", "", audit[r])
    /\ UNCHANGED <<url, page, audit, calls, now, last>>

NextService ==
    \E r \in Requests :
        \/ HandleAccept(r)
        \/ HandleReject(r)
        \/ ServiceNewPageOk(r)
        \/ ServiceNewPageFail(r)
        \/ ServiceGotoOk(r)
        \/ ServiceGotoFail(r)
        \/ ServiceRunAudits(r)
        \/ ServiceFinish(r)
        \/ ServiceReturn(r)

SpecService == InitService /\ [][NextService]_vars

----------------------------------------------------------------------------
(* Properties *)

FieldOf(scorer) ==
    CASE scorer = "technical" -> "TechnicalSEO"
      [] scorer = "onpage"    -> "OnPageSEO"
      [] scorer = "content"   -> "ContentQuality"
      [] scorer = "links"     -> "LinkStructure"
      [] scorer = "schema"    -> "SchemaMarkup"
      [] scorer = "security"  -> "Security"
      [] scorer = "ux"        -> "UserExperience"
      [] scorer = "webvitals" -> "WebVitals"

\* the category result a scorer of SpecScorers has just returned
Returned == audit[FieldOf(calls[1])]

\* C1: whatever scorer ran, on whatever signals, its result has MaxScore 100
\* and 0 <= Score <= MaxScore.
C1_ScoreWithinMaxScore ==
    pc = "scored" =>
        /\ Returned.MaxScore = Pt * 100
        /\ 0 <= Returned.Score
        /\ Returned.Score <= Returned.MaxScore

Succeeded == result.err = ""

\* C2: the OverallScore of every returned audit lies between 0 and 100.
C2_OverallScoreInRange ==
    Succeeded => result.audit.OverallScore \in 0..10000

\* an audit whose seven category scores are the highest the scorers give the page
C2_Witness ==
    /\ Succeeded
    /\ result.audit.OnPageSEO.Score > result.audit.OnPageSEO.MaxScore
    /\ result.audit.OverallScore = 9975

\* C3: OverallScore is the hundredth nearest to the sum of Score/MaxScore*100
\* times 0.30, 0.25, 0.20, 0.10, 0.05, 0.05, 0.05; these weights sum to 1 and
\* seven categories at MaxScore give exactly 100.00.
C3_WeightedSum ==
    pc = "aggregated" =>
        LET sum == 30 * audit.TechnicalSEO.Score + 25 * audit.OnPageSEO.Score
                   + 20 * audit.ContentQuality.Score + 10 * audit.LinkStructure.Score
                   + 5 * audit.SchemaMarkup.Score + 5 * audit.Security.Score
                   + 5 * audit.UserExperience.Score
            \* sum is 100 * Pt * (the weighted sum in hundredths)
            diff == 100 * Pt * audit.OverallScore - 100 * sum
        IN  /\ 30 + 25 + 20 + 10 + 5 + 5 + 5 = 100
            /\ 2 * diff <= 100 * Pt
            /\ 2 * diff >= 0 - 100 * Pt
            /\ sum = 100 * Pt * 100 => audit.OverallScore = 10000

C3_Witness ==
    /\ pc = "aggregated"
    /\ \A f \in {"TechnicalSEO", "OnPageSEO", "ContentQuality", "LinkStructure",
                 "SchemaMarkup", "Security", "UserExperience"} :
           audit[f].Score = audit[f].MaxScore
    /\ audit.OverallScore = 10000

GradeScale == <<"F", "D", "D+", "C-", "C", "C+", "B-", "B", "B+", "A-", "A", "A+">>

\* the lowest score of each grade but F, in hundredths
GradeFloor == <<0, 4000, 4500, 5000, 5500, 6000, 6500, 7000, 7500, 8000, 8500, 9000>>

Ordinal(grade) == CHOOSE i \in 1..12 : GradeScale[i] = grade

C5_GradeMonotonic ==
    pc = "graded" =>
        /\ \E i \in 1..12 : audit.Grade = GradeScale[i]
        /\ \A s2 \in GradeInputs :
             s2 >= audit.OverallScore =>
                 Ordinal(calculateGrade(s2)) >= Ordinal(audit.Grade)

C5_Witness ==
    pc = "graded" /\ audit.OverallScore < 0 /\ audit.Grade = "F"

\* C6 as stated: a second audit of the same signals returns an audit equal
\* to the first in every field.
C6_IdenticalAudits ==
    (Succeeded /\ last # Nil) => result.audit = last

\* C6 as amended: equal in every field but Timestamp and the Audit Date the
\* report prints from it.
C6_IdenticalButTimestamp ==
    (Succeeded /\ last # Nil) =>
        [result.audit EXCEPT !.Timestamp = last.Timestamp,
                             !.Markdown.AuditDate = last.Markdown.AuditDate] = last

C6_Witness ==
    /\ Succeeded
    /\ last # Nil
    /\ result.audit.Timestamp # last.Timestamp
    /\ result.audit.Recommendations # <<>>

IsCritical(r) == r \in {CriticalTechnical, CriticalHTTPS, CriticalTitle}

Criticals(recs) == {i \in 1..Len(recs) : IsCritical(recs[i])}

\* C7: after the critical markers, Recommendations is the issue lists of
\* Technical, On-Page, Content, Links, Schema, Security, UX, Web-Vitals, in
\* that order, each as its scorer returned it.
C7_IssuesConcatenated ==
    Succeeded =>
        LET a == result.audit
            recs == a.Recommendations
            k == Cardinality(Criticals(recs))
        IN  SubSeq(recs, k + 1, Len(recs)) =
                a.TechnicalSEO.Issues \o a.OnPageSEO.Issues \o a.ContentQuality.Issues
                \o a.LinkStructure.Issues \o a.SchemaMarkup.Issues \o a.Security.Issues
                \o a.UserExperience.Issues \o a.WebVitals.Issues

C7_Witness ==
    /\ Succeeded
    /\ \A f \in {"TechnicalSEO", "OnPageSEO", "ContentQuality", "LinkStructure",
                 "SchemaMarkup", "Security", "UserExperience", "WebVitals"} :
           result.audit[f].Issues # <<>>
    /\ Len(result.audit.WebVitals.Issues) > 1
    /\ Criticals(result.audit.Recommendations) # {}

\* C8: each critical marker is there exactly when its condition holds, once;
\* the markers come before every issue, title first, then HTTPS, then technical.
C8_CriticalMarkers ==
    Succeeded =>
        LET a == result.audit
            recs == a.Recommendations
            expected ==
                (IF ~a.OnPageSEO.HasTitle THEN <<CriticalTitle>> ELSE <<>>)
                \o (IF url.scheme # "https" THEN <<CriticalHTTPS>> ELSE <<>>)
                \o (IF a.TechnicalSEO.Score < Pt * 50 THEN <<CriticalTechnical>> ELSE <<>>)
        IN  /\ Len(recs) >= Len(expected)
            /\ SubSeq(recs, 1, Len(expected)) = expected
            /\ Criticals(recs) = 1..Len(expected)

C8_Witness ==
    /\ Succeeded
    /\ Len(result.audit.Recommendations) > 3
    /\ SubSeq(result.audit.Recommendations, 1, 3)
           = <<CriticalTitle, CriticalHTTPS, CriticalTechnical>>

Failed == result.err \in {"could not create page", "could not navigate to page"}

\* C9: when page creation or navigation fails AuditWebsite returns the error
\* and no audit, and has invoked no scorer, aggregator, grader, synthesizer
\* or renderer.
C9_FailureReturnsNothing ==
    /\ Failed => (result.audit = Nil /\ calls = <<>>)
    /\ pc \in {"newPage", "goto"} => calls = <<>>

C9_Witness ==
    /\ result.err = "could not navigate to page"
    /\ last # Nil

\* the full point value of each checked condition of three scorers; 0 marks
\* a condition that is checked only inside another one, or that has a
\* substitute award when there is nothing to measure
TechnicalFull == <<15, 10, 10, 10, 20, 10, 10, 10, 5>>

OnPageFull == <<15, 0, 15, 0, 15, 5, 10, 10, 5, 10, 0>>

LinkFull == <<25, 15, 0, 20, 20>>

OneIssuePerFailure(checks, full) ==
    \A i \in 1..Len(checks) :
        full[i] > 0 =>
            IF checks[i].pts = full[i] THEN checks[i].issues = <<>>
            ELSE Len(checks[i].issues) = 1

\* C10: a checked condition that awards less than its full points appends
\* exactly one issue, one that awards them in full appends none.
C10_OneIssuePerFailedCheck ==
    pc = "scored" =>
        /\ calls = <<"technical">> =>
               OneIssuePerFailure(technicalChecks(page, url, page.loadTime), TechnicalFull)
        /\ calls = <<"onpage">> => OneIssuePerFailure(onPageChecks(page), OnPageFull)
        /\ calls = <<"links">> => OneIssuePerFailure(linkChecks(page, url), LinkFull)

Ran(scorer) == pc = "scored" /\ calls = <<scorer>>

\* the points awarded by the checks of a scorer other than those in skip
OtherPts(checks, skip) ==
    SumPts([i \in 1..Len(checks) |-> IF i \in skip THEN Award(0, <<>>) ELSE checks[i]])

\* C11: the Technical scorer returns Score 100 and no issue exactly when the
\* scheme is https, the viewport tag is there, robots.txt and the sitemap
\* exist, the load time is below 2000 ms, the page below 3 MB, the requests
\* below 50 and the canonical tag is there; the score is then
\* 15+10+10+10+20+10+10+10+5.
C11_TechnicalPerfect ==
    Ran("technical") =>
        LET t == audit.TechnicalSEO
            allHold ==
                /\ url.scheme = "https"
                /\ page.viewport > 0
                /\ page.robotsTxt
                /\ page.sitemap
                /\ page.loadTime < 2000
                /\ page.contentLen < 3 * 1024 * 1024
                /\ Len(page.imgAlts) + page.scripts + page.stylesheets < 50
                /\ page.canonical > 0
        IN  /\ (t.Score = Pt * 100 /\ t.Issues = <<>>) <=> allHold
            /\ allHold => t.Score = Pt * (15 + 10 + 10 + 10 + 20 + 10 + 10 + 10 + 5)

C11_Witness ==
    /\ Ran("technical")
    /\ page.loadTime = 1999
    /\ audit.TechnicalSEO.Score = Pt * 100
    /\ audit.TechnicalSEO.Issues = <<>>

TitleTooShort == Issue("Title tag is too short (< 50 characters)")

TitleTooLong == Issue("Title tag is too long (> 60 characters)")

MissingTitle == Issue("Missing title tag")

IsTitleIssue(issue) == issue \in {TitleTooShort, TitleTooLong, MissingTitle}

\* C12: a non-empty title shorter than 50 gets 15+5 points and the one issue
\* "Title tag is too short (< 50 characters)"; of length 50 to 60, 15+10 and
\* no title issue; longer than 60, 15+5 and one too-long issue; an absent
\* title gets 0 and one missing-title issue.
C12_TitleBands ==
    Ran("onpage") =>
        LET o == audit.OnPageSEO
            titlePts == o.Score - Pt * OtherPts(onPageChecks(page), {1, 2})
            titleIssues == SelectSeq(o.Issues, IsTitleIssue)
            present == ~page.titleErr /\ page.titleLen > 0
        IN  /\ (present /\ page.titleLen < 50) =>
                (titlePts = Pt * 20 /\ titleIssues = <<TitleTooShort>>)
            /\ (present /\ page.titleLen >= 50 /\ page.titleLen <= 60) =>
                (titlePts = Pt * 25 /\ titleIssues = <<>>)
            /\ (present /\ page.titleLen > 60) =>
                (titlePts = Pt * 20 /\ titleIssues = <<TitleTooLong>>)
            /\ ~present => (titlePts = 0 /\ titleIssues = <<MissingTitle>>)
            /\ o.Issues # <<>> /\ IsTitleIssue(o.Issues[1]) <=> titleIssues # <<>>

C12_Witness ==
    /\ Ran("onpage")
    /\ page.titleLen = 49
    /\ audit.OnPageSEO.Issues[1] = TitleTooShort

IsAltIssue(issue) ==
    issue.text \in { "%.0f%% of images have alt text",
                     "Only %.0f%% of images have alt text",
                     "Most images missing alt text (%.0f%%)" }

\* C13: with no image the alt-text check gives a flat 10 points and no
\* alt-text issue; with images it gives 20 at 100% coverage, 15 from 75%,
\* 10 from 50%, 5 below, and exactly one alt-text issue below 100%.
C13_AltTextBands ==
    Ran("content") =>
        LET c == audit.ContentQuality
            images == Len(page.imgAlts)
            withAlt == Cardinality({i \in 1..images : page.imgAlts[i]})
            altPts == c.Score - Pt * OtherPts(contentChecks(page, url), {3})
            altIssues == SelectSeq(c.Issues, IsAltIssue)
        IN  /\ c.ImageCount = images
            /\ images = 0 => (altPts = Pt * 10 /\ altIssues = <<>>)
            /\ (images > 0 /\ withAlt = images) => (altPts = Pt * 20 /\ altIssues = <<>>)
            /\ (images > 0 /\ withAlt < images /\ 4 * withAlt >= 3 * images) =>
                (altPts = Pt * 15 /\ Len(altIssues) = 1)
            /\ (images > 0 /\ 4 * withAlt < 3 * images /\ 2 * withAlt >= images) =>
                (altPts = Pt * 10 /\ Len(altIssues) = 1)
            /\ (images > 0 /\ 2 * withAlt < images) =>
                (altPts = Pt * 5 /\ Len(altIssues) = 1)

C13_Witness ==
    /\ Ran("content")
    /\ page.imgAlts = <<>>
    /\ audit.ContentQuality.ImageCount = 0
    /\ audit.ContentQuality.Score > 0

GenericAnchors == Issue("Many links have generic anchor text")

\* C14: with no anchor that has text the descriptive-anchor check gives a
\* flat 15 points and no issue; otherwise 20 when at least 80% of the
\* anchors with text are descriptive, and 10 with the issue "Many links have
\* generic anchor text" when fewer are.
C14_DescriptiveAnchorBands ==
    Ran("links") =>
        LET l == audit.LinkStructure
            withText == Cardinality({i \in 1..Len(page.links) : hasAnchorText(page.links[i])})
            descriptive == Cardinality({i \in 1..Len(page.links) : isDescriptive(page.links[i])})
            anchorPts == l.Score - Pt * OtherPts(linkChecks(page, url), {3})
            anchorIssues == SelectSeq(l.Issues, LAMBDA issue : issue = GenericAnchors)
        IN  /\ withText = 0 => (anchorPts = Pt * 15 /\ anchorIssues = <<>>)
            /\ (withText > 0 /\ 100 * descriptive >= 80 * withText) =>
                (anchorPts = Pt * 20 /\ anchorIssues = <<>>)
            /\ (withText > 0 /\ 100 * descriptive < 80 * withText) =>
                (anchorPts = Pt * 10 /\ anchorIssues = <<GenericAnchors>>)

C14_Witness ==
    /\ Ran("links")
    /\ page.links # <<>>
    /\ \A i \in 1..Len(page.links) : ~hasAnchorText(page.links[i])
    /\ audit.LinkStructure.Score >= Pt * 15

\* the Web-Vitals scorer got as far as scoring the collected metrics
VitalsScored == Ran("webvitals") /\ page.readFileOk /\ page.injectOk

\* the metrics the score counts: CLS, and the others when positive
Captured(wv) ==
    {"CLS"} \cup (IF wv.LCP > 0 THEN {"LCP"} ELSE {}) \cup (IF wv.FCP > 0 THEN {"FCP"} ELSE {})
    \cup (IF wv.INP > 0 THEN {"INP"} ELSE {}) \cup (IF wv.TTFB > 0 THEN {"TTFB"} ELSE {})

RatingOf(wv, metric) ==
    CASE metric = "LCP"  -> wv.LCPRating
      [] metric = "FCP"  -> wv.FCPRating
      [] metric = "CLS"  -> wv.CLSRating
      [] metric = "INP"  -> wv.INPRating
      [] metric = "TTFB" -> wv.TTFBRating

\* 20 for good, 12 for needs-improvement, 4 for poor; a counted metric that
\* was given no rating adds nothing
MetricPoints(wv, metric) ==
    IF metric \notin Captured(wv) THEN 0
    ELSE CASE RatingOf(wv, metric) = "good" -> 20
           [] RatingOf(wv, metric) = "needs-improvement" -> 12
           [] RatingOf(wv, metric) = "poor" -> 4
           [] OTHER -> 0

RawScore(wv) ==
    MetricPoints(wv, "LCP") + MetricPoints(wv, "FCP") + MetricPoints(wv, "CLS")
    + MetricPoints(wv, "INP") + MetricPoints(wv, "TTFB")

\* C15: the Web-Vitals score adds 20, 12 or 4 points for each captured
\* metric rated good, needs-improvement or poor; with fewer than 5 metrics
\* captured the score is rawScore / (capturedCount * 20) * 100, with all 5
\* it is the raw sum; only CLS captured and good gives count 1, raw 20,
\* score 100.
C15_WebVitalsScore ==
    VitalsScored =>
        LET wv == audit.WebVitals
            capturedCount == Cardinality(Captured(wv))
            rawScore == RawScore(wv)
        IN  /\ capturedCount < 5 => wv.Score * capturedCount * 20 = Pt * rawScore * 100
            /\ capturedCount = 5 => wv.Score = Pt * rawScore
            /\ (Captured(wv) = {"CLS"} /\ wv.CLSRating = "good") =>
                (capturedCount = 1 /\ rawScore = 20 /\ wv.Score = Pt * 100)

C15_Witness ==
    /\ VitalsScored
    /\ Captured(audit.WebVitals) = {"CLS"}
    /\ audit.WebVitals.CLSRating = "good"
    /\ audit.WebVitals.Score = Pt * 100

\* C16: CLS always counts as captured and, when no CLS value was measured,
\* is rated good at value 0 for 20 points; a page on which nothing was
\* measured scores as CLS-good only, that is 100.
C16_UnmeasuredCLSIsGood ==
    VitalsScored =>
        LET wv == audit.WebVitals
            clsMeasured == page.collectOk /\ IsFloat(page.cls)
            nothingMeasured == ~clsMeasured /\ Captured(wv) = {"CLS"}
        IN  /\ ~clsMeasured => (wv.CLS = 0 /\ wv.CLSRating = "good")
            /\ nothingMeasured => wv.Score = Pt * 100

RatingRank(rating) ==
    CASE rating = "good" -> 3
      [] rating = "needs-improvement" -> 2
      [] rating = "poor" -> 1

\* good up to and including the first threshold, needs-improvement up to and
\* including the second, poor above
Band(value, first, second) ==
    IF value <= first THEN "good"
    ELSE IF value <= second THEN "needs-improvement"
    ELSE "poor"

\* values at and next to every threshold, in the unit of each metric
RatedValues ==
    { 0, 1, 500, 1000, 1001, 1800, 1801, 2000, 2001, 2500, 2501, 3000, 3001,
      4000, 4001, 5000, 5001, 8000, 8001, 18000, 18001, 30000 }

\* C17: each rating is good up to and including the first threshold,
\* needs-improvement up to and including the second and poor above, with
\* LCP 2500/4000 ms, FCP 1800/3000 ms, CLS 0.10/0.25, TTFB 800/1800 ms,
\* INP 200/500 ms; a larger value never gets a better rating.
C17_RatingThresholds ==
    VitalsScored =>
        LET wv == audit.WebVitals
            clsMeasured == page.collectOk /\ IsFloat(page.cls)
        IN  /\ wv.LCP > 0 =>
                /\ wv.LCPRating = Band(wv.LCP, 2500, 4000)
                /\ \A v \in RatedValues :
                     v >= wv.LCP => RatingRank(rateLCP(v)) <= RatingRank(wv.LCPRating)
            /\ wv.FCP > 0 =>
                /\ wv.FCPRating = Band(wv.FCP, 1800, 3000)
                /\ \A v \in RatedValues :
                     v >= wv.FCP => RatingRank(rateFCP(v)) <= RatingRank(wv.FCPRating)
            \* CLS in ten-thousandths
            /\ clsMeasured =>
                /\ wv.CLSRating = Band(page.cls.v, 1000, 2500)
                /\ \A v \in RatedValues :
                     v >= page.cls.v => RatingRank(rateCLS(v)) <= RatingRank(wv.CLSRating)
            \* TTFB and INP in tenths of a millisecond
            /\ wv.TTFB > 0 =>
                /\ wv.TTFBRating = Band(wv.TTFB, 8000, 18000)
                /\ \A v \in RatedValues :
                     v >= wv.TTFB => RatingRank(rateTTFB(v)) <= RatingRank(wv.TTFBRating)
            /\ wv.INP > 0 =>
                /\ wv.INPRating = Band(wv.INP, 2000, 5000)
                /\ \A v \in RatedValues :
                     v >= wv.INP => RatingRank(rateINP(v)) <= RatingRank(wv.INPRating)

C17_Witness ==
    /\ VitalsScored
    /\ page.cls = F(1000)
    /\ audit.WebVitals.CLSRating = "good"
    /\ audit.WebVitals.LCP = 4000
    /\ audit.WebVitals.LCPRating = "needs-improvement"
    /\ audit.WebVitals.TTFB = 18001
    /\ audit.WebVitals.TTFBRating = "poor"

NotHTTPS == Issue("Site is not using HTTPS")

MixedContentFound == Issue("Mixed content detected (HTTP resources on HTTPS page)")

HeadersUnverified == Issue("Unable to verify security headers")

\* C18: the Security score is 85 for an HTTPS site without mixed content,
\* 65 with mixed content and its issue, 30 for a site that is not HTTPS and
\* that issue; the security-header check always gives its partial 15 and its
\* issue, so the issue list is never empty and the score never 100.
C18_SecurityScore ==
    Ran("security") =>
        LET sec == audit.Security
            https == url.scheme = "https"
            mixed == page.httpImages > 0 \/ page.httpScripts > 0 \/ page.httpLinks > 0
        IN  /\ (https /\ ~mixed) =>
                (sec.Score = Pt * 85 /\ sec.Issues = <<HeadersUnverified>>)
            /\ (https /\ mixed) =>
                (sec.Score = Pt * 65 /\ sec.Issues = <<MixedContentFound, HeadersUnverified>>)
            /\ ~https =>
                (sec.Score = Pt * 30 /\ sec.Issues = <<NotHTTPS, HeadersUnverified>>)
            /\ sec.Issues # <<>>
            /\ sec.Score < Pt * 100
            /\ sec.Score - Pt * OtherPts(securityChecks(url, page), {3}) = Pt * 15

C18_Witness ==
    /\ Ran("security")
    /\ url.scheme = "https"
    /\ page.httpScripts > 0
    /\ audit.Security.Score = Pt * 65

\* the recognized types a JSON-LD block holds
BlockTypes(content) ==
    IF content.hasTypeKey
    THEN content.words \cap {"Organization", "BreadcrumbList", "Article", "Product",
                             "LocalBusiness"}
    ELSE {}

\* C19: the type bonus of the Schema scorer follows the number of distinct
\* recognized @type values over all JSON-LD blocks: 40 for 3 or more, 30 for
\* 2, 20 for 1; a type found in several blocks counts once.
C19_DistinctTypesBonus ==
    (Ran("schema") /\ page.jsonLd # <<>>) =>
        LET distinct ==
                Cardinality(UNION {BlockTypes(page.jsonLd[i]) : i \in 1..Len(page.jsonLd)})
            bonus == audit.SchemaMarkup.Score - Pt * OtherPts(schemaChecks(page), {2})
        IN  /\ distinct >= 3 => bonus = Pt * 40
            /\ distinct = 2 => bonus = Pt * 30
            /\ distinct = 1 => bonus = Pt * 20

ImproperHierarchy == Issue("Improper heading hierarchy")

HeadingCount(p, level) ==
    CASE level = 1 -> p.h1
      [] level = 2 -> p.h2
      [] level = 3 -> p.h3
      [] level = 4 -> p.h4
      [] level = 5 -> p.h5
      [] level = 6 -> p.h6

\* what the scorer returned for the hierarchy check: proper with 10 points
\* and no issue, or improper with 0 points and the one issue
HierarchyJudged(proper) ==
    LET o == audit.OnPageSEO
        pts == o.Score - Pt * OtherPts(onPageChecks(page), {7})
        issues == SelectSeq(o.Issues, LAMBDA issue : issue = ImproperHierarchy)
    IN  /\ o.ProperHeadingHierarchy = proper
        /\ IF proper THEN pts = Pt * 10 /\ issues = <<>>
           ELSE pts = 0 /\ issues = <<ImproperHierarchy>>

\* C20 as stated: the hierarchy is proper (10 points, no issue) exactly when
\* for every level k from 2 to 6 a positive count of h_k implies a positive
\* count of h_(k-1); otherwise improper, 0 points and the one issue
\* "Improper heading hierarchy".
C20_NoSkippedLevel ==
    Ran("onpage") =>
        HierarchyJudged(\A k \in 2..6 :
            HeadingCount(page, k) > 0 => HeadingCount(page, k - 1) > 0)

\* C20 as amended: proper exactly when there is an h1 and for every level k
\* from 3 to 6 a positive count of h_k implies a positive count of h_(k-1).
C20_H1AndNoSkippedLevel ==
    Ran("onpage") =>
        HierarchyJudged(/\ HeadingCount(page, 1) > 0
                        /\ \A k \in 3..6 :
                             HeadingCount(page, k) > 0 => HeadingCount(page, k - 1) > 0)

C20_Witness ==
    /\ Ran("onpage")
    /\ \A k \in 1..6 : HeadingCount(page, k) = 0
    /\ ~audit.OnPageSEO.ProperHeadingHierarchy
    /\ \E i \in 1..Len(audit.OnPageSEO.Issues) : audit.OnPageSEO.Issues[i] = ImproperHierarchy

\* C21: whatever the interleaving of the concurrent AuditWebsite calls, each
\* call's audit is, at every stage, what the call would have built running
\* alone on its own URL and page, and so is the audit it returns.
C21_Reentrant ==
    \A r \in Requests :
        LET alone == newAudit(url[r].target, audit[r].Timestamp)
        IN  /\ pc[r] \in {"newPage", "goto", "audits"} => audit[r] = alone
            /\ pc[r] = "finish" => audit[r] = runAllAudits(alone, page[r])
            /\ pc[r] = "return" => audit[r] = finishAudit(runAllAudits(alone, page[r]))
            /\ result[r].status = 200 =>
                 result[r].audit =
                     AuditWebsite(url[r].target, page[r], result[r].audit.Timestamp)

\* two overlapping audits of different pages, the one that started first
\* answered while the other is still running
C21_Witness ==
    \E r1, r2 \in Requests :
        /\ result[r1].status = 200
        /\ pc[r2] = "return"
        /\ page[r1] # page[r2]
        /\ result[r1].audit.Timestamp < audit[r2].Timestamp
        /\ result[r1].audit.OverallScore # audit[r2].OverallScore

\* C22: the pages open at once on the shared browser stay within a fixed
\* limit that does not grow with the requests in flight: they are fewer than
\* the requests being handled.
C22_OpenPagesBounded == openPages < MaxInFlight

\* C23: a POST with an unparsable body or an empty url and a GET without url
\* are answered 400 with an error and never reach the auditor; a failed
\* audit is answered 500 with an error and no audit; the audit is returned
\* only when it succeeded.
C23_EndpointResponses ==
    \A r \in Requests :
        LET req == url[r]
            resp == result[r]
            invalid == ~req.bodyOk \/ req.target = NoURL
        IN  /\ invalid => (calls[r] = <<>> /\ audit[r] = Nil)
            /\ pc[r] = "done" =>
                 /\ invalid => (resp.status = 400 /\ resp.error # "" /\ resp.audit = Nil)
                 /\ ~invalid => resp.status \in {200, 500}
                 /\ resp.status = 500 =>
                      /\ resp.error = "Error auditing website"
                      /\ resp.audit = Nil
                      /\ calls[r] = <<"AuditWebsite">>
                 /\ resp.status = 200 =>
                      /\ resp.error = ""
                      /\ resp.audit = audit[r]
                      /\ resp.audit.Markdown # Nil
                      /\ calls[r] = <<"AuditWebsite", "runAllAudits", "finishAudit">>
                 /\ resp.audit # Nil <=> resp.status = 200

C23_Witness ==
    \E r1, r2 \in Requests :
        /\ result[r1].status = 400
        /\ url[r1].method = "GET"
        /\ calls[r1] = <<>>
        /\ result[r2].status = 500
        /\ result[r2].details = "could not navigate to page"

\* C24: the Technical score never increases when the load time or the
\* request count increases, everything else equal: the load-time check
\* awards 20 below 2000 ms, 15 below 3000, 10 below 5000 and 5 from there;
\* the request check awards 10 below 50 requests, 5 from 50 to 99, 0 from 100.
C24_TechnicalMonotone ==
    Ran("technical") =>
        LET t == audit.TechnicalSEO
            checks == technicalChecks(page, url, page.loadTime)
            loadAward == IF page.loadTime < 2000 THEN 20
                         ELSE IF page.loadTime < 3000 THEN 15
                         ELSE IF page.loadTime < 5000 THEN 10 ELSE 5
            requestAward == IF t.HTTPRequests < 50 THEN 10
                            ELSE IF t.HTTPRequests <= 99 THEN 5 ELSE 0
        IN  /\ t.HTTPRequests = Len(page.imgAlts) + page.scripts + page.stylesheets
            /\ t.Score = Pt * (OtherPts(checks, {5, 7}) + loadAward + requestAward)
            /\ \A slower \in TechnicalInputs :
                   ( /\ slower.loadTime >= page.loadTime
                     /\ slower.scripts >= page.scripts
                     /\ slower = [page EXCEPT !.loadTime = slower.loadTime,
                                              !.scripts = slower.scripts] )
                   => auditTechnicalSEO(slower, url, slower.loadTime).Score <= t.Score

\* a page at the top of the middle tiers: one more millisecond or one more
\* request costs five points
C24_Witness ==
    /\ Ran("technical")
    /\ page.loadTime = 2999
    /\ audit.TechnicalSEO.HTTPRequests = 99
    /\ audit.TechnicalSEO.Score
           = auditTechnicalSEO([page EXCEPT !.loadTime = 3000, !.scripts = 99],
                               url, 3000).Score + Pt * 10

WebVitalsScriptFails == ~page.readFileOk \/ ~page.injectOk

\* C25: when the web-vitals script cannot be read or cannot be injected the
\* Web-Vitals scorer returns Score 0, MaxScore 100, the one issue naming the
\* failure and no rating, and AuditWebsite still returns, without error, the
\* complete audit of the page.
C25_WebVitalsFailureTolerated ==
    WebVitalsScriptFails =>
        /\ (\E i \in 1..Len(calls) : calls[i] = "auditWebVitals") =>
               LET wv == audit.WebVitals
               IN  /\ wv.Score = 0
                   /\ wv.MaxScore = Pt * 100
                   /\ wv.Issues =
                          << Issue(IF ~page.readFileOk
                                   THEN "Failed to read web-vitals library file"
                                   ELSE "Failed to inject web-vitals library") >>
                   /\ \A f \in {"LCPRating", "FCPRating", "CLSRating", "INPRating",
                                "TTFBRating"} : wv[f] = ""
        /\ (pc = "idle" /\ calls # <<>>) =>
               /\ Succeeded
               /\ Len(calls) = 12
               /\ result.audit = AuditWebsite(url, page, result.audit.Timestamp)
               /\ result.audit.Grade # ""
               /\ result.audit.Markdown # Nil
               /\ result.audit.Recommendations[Len(result.audit.Recommendations)]
                      = result.audit.WebVitals.Issues[1]

\* a returned audit of a page into which the script, though read, could not
\* be injected
C25_Witness ==
    /\ Succeeded
    /\ page.readFileOk
    /\ ~page.injectOk
    /\ result.audit.WebVitals.Issues = <<Issue("Failed to inject web-vitals library")>>
    /\ result.audit.OverallScore > 0

\* the recommendations of audit a without the Web-Vitals issues at their end
BeforeWebVitals(a) ==
    SubSeq(a.Recommendations, 1, Len(a.Recommendations) - Len(a.WebVitals.Issues))

\* C26: OverallScore and Grade do not depend on the Web-Vitals category: the
\* audit of the same page with any other Web-Vitals outcome has the same
\* OverallScore and Grade, and its Recommendations differ only in the
\* Web-Vitals issues that end them.
C26_WebVitalsNotAggregated ==
    Succeeded =>
        LET a == result.audit
        IN  /\ a.Recommendations = BeforeWebVitals(a) \o a.WebVitals.Issues
            /\ \A w \in WebVitalsProfiles :
                   LET other == AuditWebsite(url, w @@ page, a.Timestamp)
                   IN  /\ other.WebVitals = auditWebVitals(w)
                       /\ other.OverallScore = a.OverallScore
                       /\ other.Grade = a.Grade
                       /\ BeforeWebVitals(other) = BeforeWebVitals(a)
                       /\ other.Recommendations
                              = BeforeWebVitals(a) \o other.WebVitals.Issues

\* an audit whose Web-Vitals score is 100 while another outcome on the same
\* page scores 0 and brings other issues
C26_Witness ==
    /\ Succeeded
    /\ result.audit.WebVitals.Score = Pt * 100
    /\ \E w \in WebVitalsProfiles :
           LET other == AuditWebsite(url, w @@ page, result.audit.Timestamp)
           IN  /\ other.WebVitals.Score = 0
               /\ other.Recommendations # result.audit.Recommendations
               /\ other.OverallScore = result.audit.OverallScore

ScorerCalls ==
    << "auditTechnicalSEO", "auditOnPageSEO", "auditContentQuality", "auditLinkStructure",
       "auditSchemaMarkup", "auditSecurity", "auditUserExperience", "auditWebVitals" >>

\* C27: a returned audit is consistent with itself: the eight categories are
\* computed before the aggregation and are not touched after it, OverallScore
\* is the aggregate of the stored categories, Grade the grade of the stored
\* OverallScore, Recommendations what the stored issue lists give, and
\* Markdown, rendered last, shows those stored values.
C27_AuditConsistent ==
    /\ pc \in {"overall", "grade", "recommend", "markdown", "return"} =>
           /\ SubSeq(calls, 1, 8) = ScorerCalls
           /\ runAllAudits(audit, page) = audit
    /\ Succeeded =>
           LET a == result.audit
           IN  /\ calls = ScorerCalls \o << "calculateOverallScore", "calculateGrade",
                                            "generateRecommendations", "generateMarkdown" >>
               /\ runAllAudits(a, page) = a
               /\ a.OverallScore = calculateOverallScore(a)
               /\ a.Grade = calculateGrade(a.OverallScore)
               /\ a.Recommendations = generateRecommendations(a)
               /\ a.Markdown = generateMarkdown(a)
               /\ a.Markdown.Grade = a.Grade
               /\ a.Markdown.Summary = a.Recommendations
               /\ a.Markdown.OverallScore = RoundHalfEven(a.OverallScore, 10)

\* a returned audit graded above F whose report carries grade, issues and
\* recommendations
C27_Witness ==
    /\ Succeeded
    /\ result.audit.Grade \notin {"", "F"}
    /\ result.audit.Markdown.Grade = result.audit.Grade
    /\ result.audit.Markdown.Summary # <<>>
    /\ result.audit.Markdown.IssuesFound[1] = result.audit.TechnicalSEO.Issues

Occurrences(recs, issue) == Cardinality({i \in 1..Len(recs) : recs[i] = issue})

\* C28: Recommendations has as many entries as the eight issue lists
\* together plus the critical conditions that hold, between 0 and 3; nothing
\* is deduplicated, so "Missing canonical tag" (Technical and On-Page) and
\* "Site is not using HTTPS" (Technical and Security) are there twice.
C28_RecommendationsLength ==
    Succeeded =>
        LET a == result.audit
            recs == a.Recommendations
            critical == (IF ~a.OnPageSEO.HasTitle THEN 1 ELSE 0)
                        + (IF ~a.Security.IsHTTPS THEN 1 ELSE 0)
                        + (IF a.TechnicalSEO.Score < Pt * 50 THEN 1 ELSE 0)
        IN  /\ Len(recs) = Len(a.TechnicalSEO.Issues) + Len(a.OnPageSEO.Issues)
                           + Len(a.ContentQuality.Issues) + Len(a.LinkStructure.Issues)
                           + Len(a.SchemaMarkup.Issues) + Len(a.Security.Issues)
                           + Len(a.UserExperience.Issues) + Len(a.WebVitals.Issues)
                           + critical
            /\ Occurrences(recs, Issue("Missing canonical tag"))
                   = IF page.canonical > 0 THEN 0 ELSE 2
            /\ Occurrences(recs, Issue("Site is not using HTTPS"))
                   = IF url.scheme = "https" THEN 0 ELSE 2

\* the audit of an http page without canonical tag: both texts twice, one
\* critical marker at least
C28_Witness ==
    /\ Succeeded
    /\ Occurrences(result.audit.Recommendations, Issue("Missing canonical tag")) = 2
    /\ Occurrences(result.audit.Recommendations, Issue("Site is not using HTTPS")) = 2
    /\ result.audit.Recommendations[1] \in {CriticalTitle, CriticalHTTPS}

\* the Score a scorer gives input p of its domain for URL u
ScoreOf(scorer, p, u) ==
    CASE scorer = "technical" -> auditTechnicalSEO(p, u, p.loadTime).Score
      [] scorer = "onpage"    -> auditOnPageSEO(p).Score
      [] scorer = "content"   -> auditContentQuality(p, u).Score
      [] scorer = "links"     -> auditLinkStructure(p, u).Score
      [] scorer = "schema"    -> auditSchemaMarkup(p).Score
      [] scorer = "security"  -> auditSecurity(u, p).Score
      [] scorer = "ux"        -> auditUserExperience(p).Score

\* C29: the OverallScore of a returned audit is never below 12.75 and never
\* above 99.75, and both are attained: the audit of the least page over http
\* has 12.75 and that of the greatest page over https 99.75, and no input of
\* a weighted scorer scores below the one or above the other in its
\* category.  100 is out of reach although On-Page attains 110 of 100,
\* because Content attains at most 90 and Security at most 85.
C29_OverallScoreBounds ==
    LET lo == AuditWebsite([scheme |-> "http", host |-> Site], LeastPage, 0)
        hi == AuditWebsite([scheme |-> "https", host |-> Site], GreatestPage, 0)
    IN  /\ Succeeded =>
               /\ result.audit.OverallScore >= 1275
               /\ result.audit.OverallScore <= 9975
               /\ result.audit.OnPageSEO.Score <= Pt * 110
               /\ result.audit.ContentQuality.Score <= Pt * 90
               /\ result.audit.Security.Score <= Pt * 85
        /\ (pc = "idle" /\ served = 0 /\ page = LeastPage /\ url.scheme = "http") =>
               /\ lo.OverallScore = 1275
               /\ hi.OverallScore = 9975
               /\ hi.OnPageSEO.Score = Pt * 110
               /\ hi.ContentQuality.Score = Pt * 90
               /\ hi.Security.Score = Pt * 85
               /\ \A scorer \in Scorers \ {"webvitals"} :
                      \A p \in InputsOf(scorer), u \in URLs :
                          /\ ScoreOf(scorer, p, u) >= lo[FieldOf(scorer)].Score
                          /\ ScoreOf(scorer, p, u) <= hi[FieldOf(scorer)].Score

\* the returned audit with the lowest score: every category at its least
C29_Witness ==
    /\ Succeeded
    /\ page = LeastPage
    /\ result.audit.OverallScore = 1275
    /\ result.audit.TechnicalSEO.Score = Pt * 10
    /\ result.audit.Security.Score = Pt * 30
    /\ result.audit.Grade = "F"

\* C30: every page AuditWebsite opens is closed before it returns, on
\* success and on navigation failure alike, and a failed page creation
\* leaves none open: one page is open from page creation to the return,
\* none before, and none after any sequence of completed audits.
C30_PagesClosed ==
    /\ pc \in {"idle", "newPage"} => openPages = 0
    /\ pc \notin {"idle", "newPage"} => openPages = 1
    /\ (Succeeded \/ Failed) => openPages = 0

\* all audits served, a successful one and then one whose navigation failed
C30_Witness ==
    /\ pc = "idle"
    /\ served = MaxAudits
    /\ last # Nil
    /\ result.err = "could not navigate to page"
    /\ openPages = 0

====
